---- MODULE Spec2Model ----
(***************************************************************************)
(* Model of the weak-reference callback registry of oop_ext:               *)
(*   foundation/callback/_callback.py          Callback, _UnregisterContext *)
(*   foundation/callback/_priority_callback.py PriorityCallback            *)
(*   foundation/callback/_shortcuts.py         Before / After / wrappers   *)
(*   foundation/callback/single_call_callback.py SingleCallCallback        *)
(*   foundation/odict.py                       odict                       *)
(*                                                                         *)
(* Objects live on a small heap of addresses.  id(obj) is the address, and *)
(* an address is reused by a later allocation once its object has died; a  *)
(* weak reference remembers the generation of the object it was taken      *)
(* from, so it resolves only while that very object is alive.  CPython     *)
(* reference counting is modelled by Reap: an object dies in the step that *)
(* removes its last strong reference.                                      *)
(***************************************************************************)
EXTENDS Integers, Sequences, FiniteSets, TLC

\* ------------------------------------------------------------------ bounds
NAddr == 2          \* heap addresses available to instances
MaxAllocs == 3      \* instances created in a run (3 lets an address be reused)
MaxDepth == 2       \* nested activations of __call__ on the stack
MaxNested == 1      \* nested calls started by callables per top-level call
MaxRepeat == 2      \* times the caller repeats Register or Unregister on the
                    \* callable whose context it keeps
MaxSerial == 5      \* registrations the caller of a PriorityCallback numbers
MaxLog == 3         \* deliveries of the arguments of one call of a
                    \* SingleCallCallback
MaxHeld == 2        \* pairs and contexts a Callbacks object holds at a time
MaxEntries == 3     \* references a WeakList or a WeakSet holds at a time
NHandles == 2       \* weak handles and proxies the caller holds at a time

Addr == 1..NAddr

\* ------------------------------------------------------------- the heap
\* Classes of the instances the environment creates:
\*   "A"    plain class with the methods M1 (its instances are receivers)
\*   "Obj"  class defining __call__ (callable object, weakly held)
\*   "KObj" class defining __call__ and __CALLBACK_KEEP_STRONG_REFERENCE__
Classes == {"A", "Obj", "KObj"}
Functions == {"F1", "F2"}
Methods == {"M1"}

NoRef == [addr |-> 0, gen |-> 0]
NoneC == [kind |-> "none", ref |-> NoRef, name |-> "None"]

\* id() of the module level functions, of the functions that back the
\* methods, and of the classes: none of them is ever collected, so their
\* ids are never reused and differ from every heap address.
FuncId(name) ==
    CASE name = "F1" -> 101
      [] name = "F2" -> 102
      [] name = "M1" -> 111
      [] name = "OnCall1" -> 121
      [] name = "OnCall2" -> 122
      [] name = "OnCall3" -> 123
      [] name = "OnCall4" -> 124
      [] name = "OnCall5" -> 125
      [] OTHER -> 199

ClsId(cls) ==
    CASE cls = "A" -> 201
      [] cls = "Obj" -> 202
      [] cls = "KObj" -> 203
      [] OTHER -> 299

VARIABLES heap, ext, callbacks, context, frames, log, result, wrapper, single,
          patched, wrapped, aggregator, pcallbacks, handles, weak_list,
          weak_set, added, cached

vars == <<heap, ext, callbacks, context, frames, log, result, wrapper, single,
          patched, wrapped, aggregator, pcallbacks, handles, weak_list,
          weak_set, added, cached>>

\* aggregator: a Callbacks object (_function_callbacks and _contexts);
\* pcallbacks: the _callbacks of a PriorityCallback it registers into;
\* handles: the WeakMethodRef and WeakMethodProxy objects a caller holds
\* weak_list, weak_set: the data of a WeakList and of a WeakSet;
\* added: what the caller put into each and did not take out again
containers == <<weak_list, weak_set, added>>

\* cached: a LastResultCachedMethod or an AttributeBasedCachedMethod around
\* the method of an instance
aux == <<aggregator, pcallbacks, handles, containers, cached>>

\* patched: whether a test replaced Callback._GetKey by a function that gives
\* every callable the same key; wrapped: the wrappers put on the method of a
\* class and of its instances. The operations on a registry, on the wrapper
\* of one instance and on a SingleCallCallback leave both alone.
rest == <<patched, wrapped, aux>>

\* what the operations of the plain registry leave alone
others == <<wrapper, single, rest>>

\* weakref.ref(obj)
WeakRefTo(h, a) == [addr |-> a, gen |-> h[a].gen]

\* ref() is not None
Resolves(h, r) ==
    /\ r.addr \in Addr
    /\ h[r.addr].live
    /\ h[r.addr].gen = r.gen

ClassOfRef(h, r) == IF r.addr \in Addr THEN h[r.addr].cls ELSE "None"

\* The callables a caller can name: module level functions, bound methods of
\* the instances it holds, and the callable instances it holds.
FreeFunc(name) == [kind |-> "func", ref |-> NoRef, name |-> name]
BoundMethod(r, name) == [kind |-> "bound", ref |-> r, name |-> name]
CallableObj(r) == [kind |-> "obj", ref |-> r, name |-> "__call__"]

\* _CallbackWrapper(WeakMethodRef(callback)): it holds callback weakly when
\* callback is a bound method, and is what Before and After register for a
\* hook that wants the sender
CallbackWrapper(callback) ==
    [kind |-> "cbwrapper", ref |-> NoRef, name |-> "__call__", inner |-> callback]

\* weak_method_callback() is None
OriginalMethodDead(h, func) ==
    func.inner.kind # "func" /\ ~Resolves(h, func.inner.ref)

CallablesOf(h, held, fns) ==
    {FreeFunc(f) : f \in fns}
    \cup {BoundMethod(WeakRefTo(h, a), m) :
            a \in {x \in held : h[x].cls = "A"}, m \in Methods}
    \cup {CallableObj(WeakRefTo(h, a)) :
            a \in {x \in held : h[x].cls \in {"Obj", "KObj"}}}

\* ---------------------------------------------------------------- odict
\* The registry's _callbacks is an insertion ordered dict: a sequence of
\* entries [key, info, extra] with pairwise different keys.
OdKeys(od) == {od[i].key : i \in 1..Len(od)}

OdHas(od, key) == key \in OdKeys(od)

OdIndex(od, key) == CHOOSE i \in 1..Len(od) : od[i].key = key

OdGet(od, key) == od[OdIndex(od, key)]

\* del od[key] (the key is present)
OdDel(od, key) == SelectSeq(od, LAMBDA e : e.key # key)

\* od.pop(key, None)
OdPop(od, key) == IF OdHas(od, key) THEN OdDel(od, key) ELSE od

\* od[key] = value: a present key keeps its place, a new key goes last
OdSet(od, key, info, extra) ==
    LET e == [key |-> key, info |-> info, extra |-> extra]
    IN IF OdHas(od, key)
       THEN [i \in 1..Len(od) |-> IF od[i].key = key THEN e ELSE od[i]]
       ELSE Append(od, e)

\* od.move_to_end(key, last)
OdMoveToEnd(od, key, last) ==
    IF last
    THEN Append(OdDel(od, key), OdGet(od, key))
    ELSE <<OdGet(od, key)>> \o OdDel(od, key)

RECURSIVE OdMoveAll(_, _, _)
OdMoveAll(od, moved, last) ==
    IF moved = <<>> THEN od
    ELSE OdMoveAll(OdMoveToEnd(od, Head(moved), last), Tail(moved), last)

Reversed(s) == [i \in 1..Len(s) |-> s[Len(s) + 1 - i]]

\* faulty variant: the head is moved to the front first key first
OdInsertHeadInOrder(od, index, key, info, extra) ==
    LET set == OdSet(od, key, info, extra)
        n == Len(set)
        tail == SelectSeq([i \in 1..n |-> [k |-> set[i].key, p |-> i - 1]],
                          LAMBDA x : x.p >= index /\ x.k # key)
        head == SelectSeq([i \in 1..n |-> [k |-> set[i].key, p |-> i - 1]],
                          LAMBDA x : x.p < index \/ x.k = key)
    IN IF (n - index) <= (n \div 2)
       THEN OdMoveAll(set, [i \in 1..Len(tail) |-> tail[i].k], TRUE)
       ELSE OdMoveAll(set, [i \in 1..Len(head) |-> head[i].k], FALSE)

\* odict.insert(index, key, value); index is 0-based as in the source
OdInsert(od, index, key, info, extra) ==
    LET set == OdSet(od, key, info, extra)
        n == Len(set)
        ks == [i \in 1..n |-> set[i].key]
        pos == [i \in 1..n |-> i - 1]
        tail == SelectSeq([i \in 1..n |-> [k |-> ks[i], p |-> pos[i]]],
                          LAMBDA x : x.p >= index /\ x.k # key)
        head == SelectSeq([i \in 1..n |-> [k |-> ks[i], p |-> pos[i]]],
                          LAMBDA x : x.p < index \/ x.k = key)
    IN IF (n - index) <= (n \div 2)
       THEN OdMoveAll(set, [i \in 1..Len(tail) |-> tail[i].k], TRUE)
       ELSE OdMoveAll(set, Reversed([i \in 1..Len(head) |-> head[i].k]), FALSE)

\* ------------------------------------------------------- Callback: keys
\* Callback._GetKey, or the function testKeyReusedAfterDead puts in its
\* place (it returns 1 for every callable)
GetKey(h, func) ==
    LET f == IF func.kind = "cbwrapper" THEN func.inner ELSE func
    IN IF patched
       THEN <<1>>
       ELSE IF f.kind = "bound"
       THEN <<f.ref.addr, FuncId(f.name), ClsId(ClassOfRef(h, f.ref))>>
       ELSE IF f.kind = "func"
       THEN <<FuncId(f.name)>>
       ELSE <<f.ref.addr>>

\* faulty variant: the keep-strong marker is not looked at
IsCallableObjectAnyClass(h, func) == func.kind = "obj"

\* _IsCallableObject: not a function, not a method, and no keep-strong marker
IsCallableObject(h, func) ==
    /\ func.kind = "obj"
    /\ ClassOfRef(h, func.ref) # "KObj"

\* Callback._GetInfo: (func_obj, func_func, func_class)
GetInfo(h, func) ==
    IF IsCallableObject(h, func)
    THEN <<func.ref, NoneC, "None">>
    ELSE IF func.kind = "bound"
    THEN <<func.ref, FreeFunc(func.name), ClassOfRef(h, func.ref)>>
    ELSE <<NoRef, func, "None">>

\* 0-based tuple positions, as in the source
INFO_POS_FUNC_OBJ == 0
INFO_POS_FUNC_FUNC == 1
INFO_POS_FUNC_CLASS == 2

InfoAt(info, pos) == info[pos + 1]

\* ------------------------------------------------- reference counting
\* The addresses an entry keeps alive: an info without a func_obj holds its
\* func_func itself.
StrongOfEntry(e) ==
    IF InfoAt(e.info, INFO_POS_FUNC_OBJ) = NoRef
    THEN {InfoAt(e.info, INFO_POS_FUNC_FUNC).ref.addr} \cap Addr
    ELSE {}

\* The addresses a running __call__ keeps alive through its to_call list.
\* faulty variant: the list of a running call holds no reference
StrongOfFrameNone(f) == {}

StrongOfFrame(f) ==
    {f.to_call[i].func.ref.addr : i \in 1..Len(f.to_call)} \cap Addr

Held(e, cbs, frs) ==
    e \cup UNION {StrongOfEntry(cbs[i]) : i \in 1..Len(cbs)}
      \cup UNION {StrongOfFrame(frs[i]) : i \in 1..Len(frs)}

\* An object dies when its last strong reference goes.
Reap(h, e, cbs, frs) ==
    [a \in Addr |->
        IF h[a].live /\ a \notin Held(e, cbs, frs)
        THEN [h[a] EXCEPT !.live = FALSE]
        ELSE h[a]]

\* -------------------------------------------------- Callback.__call__
\* types.MethodType(func_func, func_obj)
MethodType(func_func, func_obj) == BoundMethod(func_obj, func_func.name)

\* What the walk over one entry appends to to_call (lines 259-288); the
\* entry's receiver is alive.
ToCallItem(e) ==
    LET func_obj == InfoAt(e.info, INFO_POS_FUNC_OBJ)
        func_func == InfoAt(e.info, INFO_POS_FUNC_FUNC)
    IN IF func_obj # NoRef
       THEN IF func_func = NoneC
            THEN [func |-> CallableObj(func_obj), extra |-> e.extra]
            ELSE [func |-> MethodType(func_func, func_obj), extra |-> e.extra]
       ELSE [func |-> func_func, extra |-> e.extra]

\* "self is dead": the entry has a func_obj and it no longer resolves, or its
\* func_func is a _CallbackWrapper whose OriginalMethod() is None
EntryDead(h, e) ==
    IF InfoAt(e.info, INFO_POS_FUNC_OBJ) # NoRef
    THEN ~Resolves(h, InfoAt(e.info, INFO_POS_FUNC_OBJ))
    ELSE /\ InfoAt(e.info, INFO_POS_FUNC_FUNC).kind = "cbwrapper"
         /\ OriginalMethodDead(h, InfoAt(e.info, INFO_POS_FUNC_FUNC))

\* faulty variant: the first loop does not look whether the receiver is alive
BuildToCallAll(h, cbs) ==
    [callbacks |-> cbs,
     to_call |-> [i \in 1..Len(cbs) |-> ToCallItem(cbs[i])],
     deleted |-> <<>>]

\* The first loop of __call__: the entries left in the registry, the to_call
\* list built from them, and the entries it deleted.
BuildToCall(h, cbs) ==
    LET alive == SelectSeq(cbs, LAMBDA e : ~EntryDead(h, e))
    IN [callbacks |-> alive,
        to_call |-> [i \in 1..Len(alive) |-> ToCallItem(alive[i])],
        deleted |-> SelectSeq(cbs, LAMBDA e : EntryDead(h, e))]

\* faulty variant: the second loop walks the registry itself
NextToCallLive(fr, cbs) ==
    IF fr.idx <= Len(cbs) THEN ToCallItem(cbs[fr.idx]) ELSE fr.to_call[fr.idx]

\* The item the second loop of __call__ invokes next: the idx-th of the
\* list built when the round began.
NextToCall(fr, cbs) == fr.to_call[fr.idx]

HasNextToCall(fr, cbs) == fr.idx <= Len(fr.to_call)

\* ----------------------------------------- Callback: the other methods
\* faulty variant: the last entry takes the place of the one removed
UnregisterByKeySwaps(cbs, key) ==
    [callbacks |->
        IF OdHas(cbs, key) /\ OdIndex(cbs, key) < Len(cbs)
        THEN SubSeq([cbs EXCEPT ![OdIndex(cbs, key)] = cbs[Len(cbs)]],
                    1, Len(cbs) - 1)
        ELSE OdPop(cbs, key),
     raised |-> FALSE]

\* faulty variant: the KeyError of an absent key is not swallowed
UnregisterByKeyStrict(cbs, key) ==
    [callbacks |-> OdPop(cbs, key), raised |-> ~OdHas(cbs, key)]

\* Callback._UnregisterByKey: a KeyError is swallowed
UnregisterByKey(cbs, key) ==
    [callbacks |-> OdPop(cbs, key), raised |-> FALSE]

\* Callback.Unregister
UnregisterFunc(h, cbs, func) == UnregisterByKey(cbs, GetKey(h, func))

\* faulty variant: the entry is appended without looking for its key
RegisterFuncAppend(h, cbs, func, extra_args) ==
    LET key == GetKey(h, func)
    IN [callbacks |-> Append(cbs, [key |-> key, info |-> GetInfo(h, func),
                                   extra |-> extra_args]),
        key |-> key]

\* faulty variant: an entry whose key is present is overwritten where it is
RegisterFuncInPlace(h, cbs, func, extra_args) ==
    LET key == GetKey(h, func)
        new == [key |-> key, info |-> GetInfo(h, func), extra |-> extra_args]
    IN [callbacks |-> IF OdHas(cbs, key)
                      THEN [cbs EXCEPT ![OdIndex(cbs, key)] = new]
                      ELSE Append(cbs, new),
        key |-> key]

\* Callback.Register: the new registry and the key of the returned context
RegisterFunc(h, cbs, func, extra_args) ==
    LET key == GetKey(h, func)
    IN [callbacks |-> OdSet(OdPop(cbs, key), key, GetInfo(h, func), extra_args),
        key |-> key]

\* faulty variant: an entry whose receiver is dead is left in the registry
ContainsFuncKeepsDead(h, cbs, func) ==
    LET key == GetKey(h, func)
    IN IF ~OdHas(cbs, key)
       THEN [ret |-> FALSE, callbacks |-> cbs]
       ELSE LET e == OdGet(cbs, key)
                func_obj == InfoAt(e.info, INFO_POS_FUNC_OBJ)
                func_func == InfoAt(e.info, INFO_POS_FUNC_FUNC)
            IN [ret |-> IF func_obj # NoRef
                        THEN /\ Resolves(h, func_obj)
                             /\ \/ func = CallableObj(func_obj)
                                \/ /\ func_func # NoneC
                                   /\ func = MethodType(func_func, func_obj)
                        ELSE \/ func_func = func
                             \/ /\ func.kind = "bound"
                                /\ FreeFunc(func.name) = func_func,
                callbacks |-> cbs]

\* faulty variant: a live entry under the key is taken for the callable
ContainsFuncByKey(h, cbs, func) ==
    LET key == GetKey(h, func)
    IN IF ~OdHas(cbs, key)
       THEN [ret |-> FALSE, callbacks |-> cbs]
       ELSE IF EntryDead(h, OdGet(cbs, key))
       THEN [ret |-> FALSE, callbacks |-> OdDel(cbs, key)]
       ELSE [ret |-> TRUE, callbacks |-> cbs]

\* Callback.Contains: the value returned and the registry it leaves
ContainsFunc(h, cbs, func) ==
    LET key == GetKey(h, func)
    IN IF ~OdHas(cbs, key)
       THEN [ret |-> FALSE, callbacks |-> cbs]
       ELSE LET e == OdGet(cbs, key)
                func_obj == InfoAt(e.info, INFO_POS_FUNC_OBJ)
                func_func == InfoAt(e.info, INFO_POS_FUNC_FUNC)
            IN IF func_obj # NoRef
               THEN IF ~Resolves(h, func_obj)
                    THEN [ret |-> FALSE, callbacks |-> OdDel(cbs, key)]
                    ELSE [ret |-> \/ func = CallableObj(func_obj)
                                  \/ /\ func_func # NoneC
                                     /\ func = MethodType(func_func, func_obj),
                          callbacks |-> cbs]
               ELSE IF func_func.kind = "cbwrapper"
                    THEN IF OriginalMethodDead(h, func_func)
                         THEN [ret |-> FALSE, callbacks |-> OdDel(cbs, key)]
                         ELSE [ret |-> func_func.inner = func, callbacks |-> cbs]
                    ELSE IF func_func = func
                    THEN [ret |-> TRUE, callbacks |-> cbs]
                    ELSE [ret |-> /\ func.kind = "bound"
                                  /\ FreeFunc(func.name) = func_func,
                          callbacks |-> cbs]

\* ---------------------------------------------------- PriorityCallback
INFO_POS_PRIORITY == 3

\* PriorityCallback._GetInfo: the info of Callback with the priority added
PriorityGetInfo(h, func, priority) == Append(GetInfo(h, func), priority)

PriorityOf(e) == InfoAt(e.info, INFO_POS_PRIORITY)

\* faulty variant: the scan stops at the first entry whose priority is not lower
PriorityIndexNotLower(cbs, priority) ==
    LET n == Len(cbs)
        higher == {i \in 0..(n - 1) : PriorityOf(cbs[i + 1]) >= priority}
    IN IF higher # {}
       THEN CHOOSE i \in higher : \A j \in higher : i <= j
       ELSE IF n = 0 THEN 1 ELSE n

\* faulty variant: no scan, the entry goes last
PriorityIndexLast(cbs, priority) == IF Len(cbs) = 0 THEN 1 ELSE Len(cbs)

\* The scan of PriorityCallback.Register: the 0-based position of the first
\* entry whose priority number is higher; when there is none, one more than
\* the last value of the loop variable, which for an empty registry is 0.
PriorityIndex(cbs, priority) ==
    LET n == Len(cbs)
        higher == {i \in 0..(n - 1) : PriorityOf(cbs[i + 1]) > priority}
    IN IF higher # {}
       THEN CHOOSE i \in higher : \A j \in higher : i <= j
       ELSE IF n = 0 THEN 1 ELSE n

\* PriorityCallback.Register; it returns None
PriorityRegisterFunc(h, cbs, func, extra_args, priority) ==
    LET key == GetKey(h, func)
        popped == OdPop(cbs, key)
        new_info == PriorityGetInfo(h, func, priority)
        i == PriorityIndex(popped, priority)
    IN OdInsert(popped, i, key, new_info, extra_args)

\* ------------------------------------------------------- _MethodWrapper
\* The before and after registries are _fast_callback.Callback objects, whose
\* Register, Contains, Unregister and __call__ read as those of Callback.
\* The values a method or a hook may return.
ReturnValues == {1, 2}

\* _MethodWrapper.__init__, and the progress of a call of the wrapper: where
\* __call__ stands, its arguments, what is left of the to_call list of the
\* hook registry being called, what the original method and the last hook
\* returned, and what the wrapper returned; deleted records, for the reader
\* of a run, the entries the hook registries deleted during the call.
NoWrapper ==
    [installed |-> FALSE, method |-> NoneC,
     has_before |-> FALSE, before |-> <<>>,
     has_after |-> FALSE, after |-> <<>>,
     pc |-> "idle", args |-> <<>>, to_call |-> <<>>,
     m_ret |-> 0, hook_ret |-> 0, ret |-> 0, deleted |-> <<>>]

\* WrapForCallback for a bound method: the wrapper already installed on the
\* instance, or a new one installed in its place.
WrapForCallback(h, w, method) ==
    IF w.installed /\ w.method = method /\ Resolves(h, method.ref)
    THEN w
    ELSE [NoWrapper EXCEPT !.installed = TRUE, !.method = method]

\* _MethodWrapper.AppendBefore
AppendBefore(h, w, callback, extra_args) ==
    [w EXCEPT !.has_before = TRUE,
              !.before = RegisterFunc(h, w.before, callback, extra_args).callbacks]

\* _MethodWrapper.AppendAfter
AppendAfter(h, w, callback, extra_args) ==
    [w EXCEPT !.has_after = TRUE,
              !.after = RegisterFunc(h, w.after, callback, extra_args).callbacks]

\* _CreateBeforeOrAfter with sender_as_parameter=False
CreateBeforeOrAfter(h, w, method, callback, before) ==
    IF before
    THEN AppendBefore(h, WrapForCallback(h, w, method), callback, <<>>)
    ELSE AppendAfter(h, WrapForCallback(h, w, method), callback, <<>>)

\* _CreateBeforeOrAfter with sender_as_parameter=True on a bound method: a
\* weak reference to the method's instance is the hook's extra argument and
\* the callback is registered inside a _CallbackWrapper
CreateBeforeOrAfterSender(h, w, method, callback, before) ==
    LET made == WrapForCallback(h, w, method)
        extra_args == <<method.ref>>
    IN IF before
       THEN AppendBefore(h, made, CallbackWrapper(callback), extra_args)
       ELSE AppendAfter(h, made, CallbackWrapper(callback), extra_args)

\* faulty variant: a callback found in the before registry is not looked for
\* in the after registry
WrapperRemoveFirstOnly(h, w, callback) ==
    LET inBefore == ContainsFunc(h, w.before, callback)
        inAfter == ContainsFunc(h, w.after, callback)
    IN IF w.has_before /\ inBefore.ret
       THEN [wrapper |-> [w EXCEPT !.before =
                            UnregisterFunc(h, inBefore.callbacks, callback).callbacks],
             ret |-> TRUE]
       ELSE [wrapper |-> [w EXCEPT
                            !.before = IF w.has_before THEN inBefore.callbacks ELSE @,
                            !.after = IF w.has_after
                                      THEN IF inAfter.ret
                                           THEN UnregisterFunc(h, inAfter.callbacks,
                                                               callback).callbacks
                                           ELSE inAfter.callbacks
                                      ELSE @],
             ret |-> w.has_after /\ inAfter.ret]

\* _MethodWrapper.Remove: the wrapper it leaves and the value returned
WrapperRemove(h, w, callback) ==
    LET inBefore == ContainsFunc(h, w.before, callback)
        inAfter == ContainsFunc(h, w.after, callback)
        before == IF w.has_before
                  THEN IF inBefore.ret
                       THEN UnregisterFunc(h, inBefore.callbacks, callback).callbacks
                       ELSE inBefore.callbacks
                  ELSE w.before
        after == IF w.has_after
                 THEN IF inAfter.ret
                      THEN UnregisterFunc(h, inAfter.callbacks, callback).callbacks
                      ELSE inAfter.callbacks
                 ELSE w.after
    IN [wrapper |-> [w EXCEPT !.before = before, !.after = after],
        ret |-> (w.has_before /\ inBefore.ret) \/ (w.has_after /\ inAfter.ret)]

\* self._before(*args) or self._after(*args): the first loop of the hook
\* registry's __call__; a registry that was never created is not called
HookRound(h, has, cbs) ==
    IF has THEN BuildToCall(h, cbs)
    ELSE [callbacks |-> cbs, to_call |-> <<>>, deleted |-> <<>>]

\* faulty variant: the wrapper returns what the last hook returned
WrapperResultOfHook(w) == w.hook_ret

\* "return result": the value the original method returned
WrapperResult(w) == w.m_ret

\* ------------------------------- wrappers on a class and its instances
\* The method foo of a class C, hooked through the class (C.foo) and through
\* its instances a and b (a.foo, b.foo), which the caller holds throughout.
\*   made      the _MethodWrapper objects in the order they were created,
\*             each with the receiver of the method it wraps (self, 0 when
\*             the method has none), the wrapper the wrapped method leads to
\*             (orig, 0 when it is the function as the class body wrote it)
\*             and its before and after registries;
\*   on_class  the attribute foo of the class: 0 the function as written,
\*             k the function `call` that re-exports wrapper k;
\*   on_inst   the attribute foo in each instance's own dict: 0 none, k
\*             wrapper k.
Instances == {1, 2}

NoneWrapped ==
    [made |-> <<>>, on_class |-> 0, on_inst |-> [i \in Instances |-> 0]]

\* What C.foo (via = 0) or instance.foo (via = the instance) evaluates to: a
\* wrapper found in the instance's dict, or the class attribute (the
\* function as written or the re-export `call`), bound when reached through
\* an instance.
MethodVia(w, via) ==
    IF via # 0 /\ w.on_inst[via] # 0
    THEN [kind |-> "wrapper", self |-> 0, wrapper |-> w.on_inst[via]]
    ELSE [kind |-> IF w.on_class = 0 THEN "function" ELSE "call",
          self |-> via, wrapper |-> w.on_class]

\* _GetWrapped: the method if it is a _MethodWrapper, else its
\* _wrapped_instance, else None (0)
GetWrapped(method) ==
    IF method.kind \in {"wrapper", "call"} THEN method.wrapper ELSE 0

\* hasattr(method, "__self__"): a bound method has it, a function and a
\* _MethodWrapper have not
HasSelf(method) == method.self # 0

\* faulty variant: the new wrapper wraps the function as written
OriginalOfPlain(method) == 0

\* What _MethodWrapper(method) keeps as its method: the wrapper that method
\* leads to, 0 if it is the function as written (bound or not)
OriginalOf(method) == method.wrapper

\* faulty variant: a new wrapper is made every time, around whatever the
\* attribute holds, and put in its place
WrapForCallbackStacks(w, method) ==
    LET target == IF method.kind = "wrapper" THEN w.made[method.wrapper].self
                  ELSE method.self
        new == Len(w.made) + 1
        made == Append(w.made, [self |-> target, orig |-> method.wrapper,
                                before |-> <<>>, after |-> <<>>])
    IN IF target = 0
       THEN [wrapped |-> [w EXCEPT !.made = made, !.on_class = new],
             wrapper |-> new]
       ELSE [wrapped |-> [w EXCEPT !.made = made, !.on_inst[target] = new],
             wrapper |-> new]

\* WrapForCallback(method): the wrappers it leaves and the one it returns. A
\* bound method always has a __self__ that is not None, so the test of line
\* 204 never holds.
WrapForCallbackVia(w, method) ==
    LET wrapped_ == GetWrapped(method)
        new == Len(w.made) + 1
        made == Append(w.made, [self |-> method.self, orig |-> OriginalOf(method),
                                before |-> <<>>, after |-> <<>>])
    IN IF wrapped_ # 0 /\ ~HasSelf(method)
       THEN [wrapped |-> w, wrapper |-> wrapped_]
       ELSE IF ~HasSelf(method)
       THEN [wrapped |-> [w EXCEPT !.made = made, !.on_class = new],
             wrapper |-> new]
       ELSE [wrapped |-> [w EXCEPT !.made = made, !.on_inst[method.self] = new],
             wrapper |-> new]

\* _CreateBeforeOrAfter(method, callback, False, before)
CreateBeforeOrAfterVia(h, w, method, callback, before) ==
    LET r == WrapForCallbackVia(w, method)
        k == r.wrapper
        made == r.wrapped.made
    IN IF before
       THEN [r.wrapped EXCEPT !.made[k].before =
                RegisterFunc(h, made[k].before, callback, <<>>).callbacks]
       ELSE [r.wrapped EXCEPT !.made[k].after =
                RegisterFunc(h, made[k].after, callback, <<>>).callbacks]

\* One hook registry called with args: its invocations, each with the
\* wrapper that owns the registry.
HookEvents(h, cbs, args, k, did) ==
    LET to_call == BuildToCall(h, cbs).to_call
    IN [j \in 1..Len(to_call) |->
          [func |-> to_call[j].func, args |-> to_call[j].extra \o args,
           depth |-> k, did |-> did]]

\* _MethodWrapper.__call__ of wrapper k with args, every hook returning: the
\* before hooks, the wrapped method (the function as written, or the
\* re-export of another wrapper, either one bound to the receiver the
\* wrapper was made for) and the after hooks.
RECURSIVE CallWrapper(_, _, _, _)
CallWrapper(h, made, k, args) ==
    LET wr == made[k]
        m_args == IF wr.self # 0 THEN <<wr.self>> \o args ELSE args
    IN HookEvents(h, wr.before, args, k, "before")
       \o (IF wr.orig = 0
           THEN <<[func |-> FreeFunc("foo"), args |-> m_args, depth |-> 0,
                   did |-> "original"]>>
           ELSE CallWrapper(h, made, wr.orig, m_args))
       \o HookEvents(h, wr.after, args, k, "after")

\* instance.foo(*args)
CallMethod(h, w, inst, args) ==
    LET method == MethodVia(w, inst)
    IN IF method.kind = "wrapper"
       THEN CallWrapper(h, w.made, method.wrapper, args)
       ELSE IF method.kind = "call"
       THEN CallWrapper(h, w.made, method.wrapper, <<inst>> \o args)
       ELSE <<[func |-> FreeFunc("foo"), args |-> <<inst>> \o args, depth |-> 0,
               did |-> "original"]>>

\* --------------------------------------------------- SingleCallCallback
\* SingleCallCallback.__init__ with callback_parameter None: _done, _args and
\* the weak reference to the parameter; _done_callbacks is the registry
NewSingle ==
    [done |-> FALSE, args |-> <<>>, has_param |-> FALSE, param |-> NoRef,
     again |-> FALSE]

\* an instance passed as an argument, written as a number no other argument is
ObjectArg(r) == 0 - (10 * r.gen + r.addr)

\* sender() in _CallbackWrapper.__call__: the instance the weak reference
\* refers to, or None (written 0) when that instance has died
SenderArg(h, r) == IF Resolves(h, r) THEN ObjectArg(r) ELSE 0

\* faulty variant: the weak reference to the parameter is not looked at
ParamDeadNever(h, s) == FALSE

\* "Callback parameter is already garbage collected."
ParamDead(h, s) == s.has_param /\ ~Resolves(h, s.param)

\* the arguments a callable gets: the parameter, if there is one, and args
WithParam(s, args) == IF s.has_param THEN <<ObjectArg(s.param)>> \o args ELSE args

\* faulty variant: the callback can be called any number of times
CalledOnceNever(s) == FALSE

\* "if self._done: raise AssertionError"
CalledOnce(s) == s.done

\* faulty variant: a registration made after the call always replays it
ReplaysAlways(s, contains) == s.done

\* faulty variant: a callback allowed to fire again still replays its last
\* call to new registrations
ReplaysLastCall(s, contains) == s.args # <<>> /\ ~contains

\* "if self._done and not contains"
Replays(s, contains) == s.done /\ ~contains

\* the exceptions the registry classes raise themselves
AssertionError == [kind |-> "error", ref |-> NoRef, name |-> "AssertionError"]
ReferenceError == [kind |-> "error", ref |-> NoRef, name |-> "ReferenceError"]
KeyError == [kind |-> "error", ref |-> NoRef, name |-> "KeyError"]
AttributeError == [kind |-> "error", ref |-> NoRef, name |-> "AttributeError"]

\* ------------------------------------------------------------ Callbacks
\* Callbacks.__init__: no (sender, callback) pairs and no contexts; through
\* records, for the reader of a run, what was registered through the object
\* since it was last emptied
NewCallbacks == [function_callbacks |-> <<>>, contexts |-> <<>>, through |-> {}]

\* Callbacks.Before and Callbacks.After: the pair they append; sender is the
\* wrapper Before or After returned, named by the method it wraps
AppendPair(agg, sender, callback, into) ==
    [agg EXCEPT !.function_callbacks = Append(@, [sender |-> sender,
                                                  callback |-> callback]),
                !.through = @ \cup {[into |-> into, sender |-> sender,
                                     func |-> callback]}]

\* Callbacks.Register: what callback.Register(func) returned is appended
AppendContext(agg, returned, func, into) ==
    [agg EXCEPT !.contexts = Append(@, returned),
                !.through = @ \cup {[into |-> into, sender |-> NoneC, func |-> func]}]

\* "for sender, callback in self._function_callbacks: Remove(sender,
\* callback)": w is the one wrapper there is; a pair whose sender is a wrapper
\* made for an instance that is gone leaves w alone
RECURSIVE RemoveEach(_, _, _)
RemoveEach(h, w, pairs) ==
    IF pairs = <<>> THEN w
    ELSE RemoveEach(h,
                    IF w.installed /\ w.method = Head(pairs).sender
                    THEN WrapperRemove(h, w, Head(pairs).callback).wrapper
                    ELSE w,
                    Tail(pairs))

\* "for context in self._contexts: context.Unregister()", every context
\* being one of the registry c or None: the registry it leaves, the contexts
\* not reached, and whether it raised AttributeError
RECURSIVE UnregisterEach(_, _)
UnregisterEach(c, contexts) ==
    IF contexts = <<>>
    THEN [callbacks |-> c, raised |-> FALSE]
    ELSE IF Head(contexts).func = NoneC
    THEN [callbacks |-> c, raised |-> TRUE]
    ELSE UnregisterEach(UnregisterByKey(c, Head(contexts).key).callbacks,
                        Tail(contexts))

\* Callbacks.RemoveAll: the pairs are removed and their list cleared, then
\* the contexts are unregistered and their list cleared
RemoveAllOf(h, agg, w, c) ==
    LET u == UnregisterEach(c, agg.contexts)
    IN [wrapper |-> RemoveEach(h, w, agg.function_callbacks),
        callbacks |-> u.callbacks,
        raised |-> u.raised,
        aggregator |-> [agg EXCEPT !.function_callbacks = <<>>,
                                   !.contexts = IF u.raised THEN @ ELSE <<>>,
                                   !.through = {}]]

\* ------------------------------------ WeakMethodRef, WeakMethodProxy
\* a variable that holds no handle; of is, for the reader of a run, the
\* callable a handle was made of
NoHandle ==
    [proxy |-> FALSE, obj |-> NoRef, func |-> NoneC, cls |-> "None",
     hashed |-> FALSE, hash |-> 0, of |-> NoneC]

\* WeakMethodRef.__init__, which WeakMethodProxy inherits: a bound method
\* gives a weak reference to its instance, anything else is kept as it is
WeakMethodRefInit(h, method, proxy) ==
    IF method.kind = "bound"
    THEN [proxy |-> proxy, obj |-> method.ref, func |-> FreeFunc(method.name),
          cls |-> ClassOfRef(h, method.ref), hashed |-> FALSE, hash |-> 0,
          of |-> method]
    ELSE [proxy |-> proxy, obj |-> NoRef, func |-> method, cls |-> "None",
          hashed |-> FALSE, hash |-> 0, of |-> method]

\* faulty variant: the address of the instance is looked at, not the instance
IsDeadByAddress(h, w) == w.obj # NoRef /\ ~h[w.obj.addr].live

\* WeakMethodRef.is_dead
IsDead(h, w) == w.obj # NoRef /\ ~Resolves(h, w.obj)

\* WeakMethodRef.__call__: None, a new bound method, or the function
WeakMethodRefCall(h, w) ==
    IF IsDead(h, w) THEN NoneC
    ELSE IF w.obj # NoRef THEN MethodType(w.func, w.obj)
    ELSE w.func

\* hash(x) for None, a function and a bound method; the hash of a bound
\* method comes from the address of its instance and from its function
HashOf(c) ==
    IF c = NoneC THEN 0
    ELSE IF c.kind = "bound" THEN 1000 * c.ref.addr + FuncId(c.name)
    ELSE FuncId(c.name)

\* faulty variant: the hash is computed at every request
WeakMethodHashFresh(h, w) ==
    [handle |-> [w EXCEPT !.hashed = TRUE, !.hash = HashOf(WeakMethodRefCall(h, w))],
     ret |-> HashOf(WeakMethodRefCall(h, w))]

\* WeakMethodRef.__hash__: the handle it leaves and the value returned
WeakMethodHash(h, w) ==
    IF w.hashed
    THEN [handle |-> w, ret |-> w.hash]
    ELSE [handle |-> [w EXCEPT !.hashed = TRUE,
                               !.hash = HashOf(WeakMethodRefCall(h, w))],
          ret |-> HashOf(WeakMethodRefCall(h, w))]

\* WeakMethodRef.__eq__ and WeakMethodProxy.__eq__ for two of these objects:
\* the same type, and the callables they resolve to compare equal (two bound
\* methods are equal when they have the same instance and function)
WeakMethodEq(h, w1, w2) ==
    /\ w1.proxy = w2.proxy
    /\ WeakMethodRefCall(h, w1) = WeakMethodRefCall(h, w2)

\* ------------------------------------------------------------- IsSame
\* What IsSame is given: an instance, None, weakref.ref(instance) or
\* weakref.proxy(instance)
Value(kind, r) == [kind |-> kind, ref |-> r]
NoneValue == Value("none", NoRef)

\* isinstance(obj, ...) asks a weakref.proxy for its __class__, which raises
\* ReferenceError when the instance is gone
ProxyGone(h, o) == o.kind = "proxy" /\ ~Resolves(h, o.ref)

\* "if IsWeakRef(o): o = o()"
GetRealObj(h, o) ==
    IF o.kind = "ref"
    THEN IF Resolves(h, o.ref) THEN Value("obj", o.ref) ELSE NoneValue
    ELSE o

\* o1 == o2 for two live proxies: the comparison of the instances, which
\* is identity unless the class of one defines __eq__ as _Stub does
ProxiesEqual(h, o1, o2) ==
    o1.ref = o2.ref \/ "Stub" \in {ClassOfRef(h, o1.ref), ClassOfRef(h, o2.ref)}

\* IsWeakProxy(obj): isinstance(obj, (weakref.ProxyType, WeakMethodProxy)).
\* weakref.proxy gives an instance of a class with __call__ a
\* weakref.CallableProxyType, which is neither
IsWeakProxy(h, o) == o.kind = "proxy" /\ ClassOfRef(h, o.ref) # "Obj"

\* IsSame(o1, o2): whether it raised ReferenceError, and what it returned.
\* Two values that are not weak objects are compared with "is": a proxy
\* that IsWeakProxy does not know is one of them
IsSame(h, o1, o2) ==
    LET a == GetRealObj(h, o1)
        b == GetRealObj(h, o2)
    IN IF ProxyGone(h, o1) \/ ProxyGone(h, o2)
       THEN [raised |-> TRUE, ret |-> FALSE]
       ELSE IF ~IsWeakProxy(h, a) /\ ~IsWeakProxy(h, b)
       THEN [raised |-> FALSE, ret |-> a = b]
       ELSE IF IsWeakProxy(h, a) /\ IsWeakProxy(h, b)
       THEN IF ~ProxiesEqual(h, a, b)
            THEN [raised |-> FALSE, ret |-> FALSE]
            ELSE [raised |-> TRUE, ret |-> FALSE]
       ELSE LET weak == IF IsWeakProxy(h, a) THEN a ELSE b
                original == IF IsWeakProxy(h, a) THEN b ELSE a
            IN [raised |-> FALSE,
                ret |-> original.kind = "obj" /\ weak.ref = original.ref]

\* -------------------------------------------------- WeakList, WeakSet
\* An instance as an item of a container
Instance(r) == [kind |-> "inst", ref |-> r, name |-> "instance"]

\* GetWeakRef(obj) for an instance, a function or a bound method:
\* WeakMethodRef(obj) for a method and weakref.ref(obj) otherwise; neither
\* has a hash before it is asked for one
GetWeakRef(obj) ==
    [weak |-> IF obj.kind = "bound" THEN "WeakMethodRef" ELSE "ref",
     of |-> obj, hashed |-> FALSE, hash |-> 0]

\* ref(): the object, a bound method made anew, or None
EntryCall(h, e) ==
    IF e.of.ref # NoRef /\ ~Resolves(h, e.of.ref) THEN NoneC ELSE e.of

\* hash(obj) of an instance (from its address), a function or a method
ItemHash(c) == IF c.kind = "inst" THEN c.ref.addr ELSE HashOf(c)

\* hash(ref): both weakref.ref and WeakMethodRef keep the first answer
EntryHash(h, e) ==
    IF e.hashed THEN e
    ELSE [e EXCEPT !.hashed = TRUE, !.hash = ItemHash(EntryCall(h, e))]

\* x == ref: two WeakMethodRef are equal when what they resolve to is; two
\* weakref.ref to live objects compare the objects, which is identity for
\* these classes, and otherwise are equal only when they are the same
\* reference (weakref.ref(obj) gives one reference per object)
EntryEq(h, e1, e2) ==
    /\ e1.weak = e2.weak
    /\ IF e1.weak = "WeakMethodRef"
       THEN EntryCall(h, e1) = EntryCall(h, e2)
       ELSE e1.of = e2.of

\* data.remove(ref) of a list: without the first element equal to ref
RECURSIVE ListRemove(_, _, _)
ListRemove(h, data, ref) ==
    IF data = <<>> THEN <<>>
    ELSE IF EntryEq(h, Head(data), ref) THEN Tail(data)
    ELSE <<Head(data)>> \o ListRemove(h, Tail(data), ref)

\* faulty variant: dead references stay in the list
RECURSIVE WeakListIterKeep(_, _, _)
WeakListIterKeep(h, data, copy) ==
    IF copy = <<>> THEN [data |-> data, yielded |-> <<>>]
    ELSE IF EntryCall(h, Head(copy)) = NoneC
    THEN WeakListIterKeep(h, data, Tail(copy))
    ELSE LET r == WeakListIterKeep(h, data, Tail(copy))
         IN [data |-> r.data, yielded |-> <<EntryCall(h, Head(copy))>> \o r.yielded]

\* WeakList.__iter__ run to its end over the copy it makes: the data it
\* leaves and the objects it yields
RECURSIVE WeakListIter(_, _, _)
WeakListIter(h, data, copy) ==
    IF copy = <<>> THEN [data |-> data, yielded |-> <<>>]
    ELSE IF EntryCall(h, Head(copy)) = NoneC
    THEN WeakListIter(h, ListRemove(h, data, Head(copy)), Tail(copy))
    ELSE LET r == WeakListIter(h, data, Tail(copy))
         IN [data |-> r.data, yielded |-> <<EntryCall(h, Head(copy))>> \o r.yielded]

\* WeakList.remove(item): dead references met on the way are removed, and
\* the loop ends at the first object equal to item
RECURSIVE WeakListRemove(_, _, _, _)
WeakListRemove(h, data, copy, item) ==
    IF copy = <<>> THEN data
    ELSE IF EntryCall(h, Head(copy)) = NoneC
    THEN WeakListRemove(h, ListRemove(h, data, Head(copy)), Tail(copy), item)
    ELSE IF EntryCall(h, Head(copy)) = item
    THEN ListRemove(h, data, Head(copy))
    ELSE WeakListRemove(h, data, Tail(copy), item)

\* The elements of a set that a lookup of key finds: the same hash, and
\* equal to key
SetFind(h, data, key) ==
    {e \in data : e.hash = key.hash /\ EntryEq(h, e, key)}

\* data.remove(key) of a set that holds an element equal to key; when
\* several are equal to it (dead WeakMethodRef with one hash) the table
\* decides which one goes
SetRemove(h, data, key) == data \ {CHOOSE e \in SetFind(h, data, key) : TRUE}

\* WeakSet.add(item)
WeakSetAdd(h, data, item) ==
    LET key == EntryHash(h, GetWeakRef(item))
    IN IF SetFind(h, data, key) # {} THEN data ELSE data \cup {key}

\* WeakSet.__iter__ run to its end over the copy it makes
RECURSIVE WeakSetIter(_, _, _)
WeakSetIter(h, data, copy) ==
    IF copy = {} THEN [data |-> data, yielded |-> {}]
    ELSE LET ref == CHOOSE e \in copy : TRUE
         IN IF EntryCall(h, ref) = NoneC
            THEN WeakSetIter(h, SetRemove(h, data, ref), copy \ {ref})
            ELSE LET r == WeakSetIter(h, data, copy \ {ref})
                 IN [data |-> r.data,
                     yielded |-> {EntryCall(h, ref)} \cup r.yielded]

\* WeakSet.remove(item): KeyError when the set has no element equal to
\* GetWeakRef(item)
WeakSetRemove(h, data, item) ==
    LET key == EntryHash(h, GetWeakRef(item))
    IN IF SetFind(h, data, key) = {}
       THEN [data |-> data, raised |-> TRUE]
       ELSE [data |-> SetRemove(h, data, key), raised |-> FALSE]

\* ------------------------------------------------------ inputs, state
\* extra_args given to Register and the arguments given to a call
ExtraArgs == {<<>>, <<7>>}
CallArgs == {<<10>>, <<20>>}

\* The _UnregisterContext the caller keeps (its key; the registry is the
\* only one there is), and the caller's books on the callable it came from:
\* func, how often Register(func) ran since func was last unregistered, and
\* how often an unregistration of func ran since the last Register(func).
NoToken == [key |-> <<0>>, func |-> NoneC, regs |-> 0, unregs |-> 0]

FuncAlive(h, func) == func.kind = "func" \/ Resolves(h, func.ref)

\* The outcome of the caller's last operation: for a call that is over, the
\* exception that reached the caller (named by the callable that raised it)
\* and the activations of __call__ that ended with it.
Done(op, status, ret) ==
    [op |-> op, status |-> status, ret |-> ret, exc |-> NoneC, rounds |-> <<>>]

\* The outcome of Contains(func): the value returned, and for the record the
\* callable asked about and the registry as it was before.
ContainsOver(func, before, ret) ==
    [op |-> "Contains", status |-> "ok", ret |-> ret, exc |-> NoneC,
     rounds |-> <<>>, func |-> func, before |-> before]

CallOver(status, exc, rounds) ==
    [op |-> "Call", status |-> status, ret |-> FALSE, exc |-> exc, rounds |-> rounds]

\* ---------------------------------------------------- cached_method.py
\* how often the wrapped method runs, and how many hits there are between
\* two Clear, in a run
MaxCalls == 4

\* The values a caller passes: an int n is IntV(n), a list and a tuple of
\* ints carry their elements.
IntV(n) == [t |-> "int", v |-> <<n>>]
ListV(s) == [t |-> "list", v |-> s]
TupleV(s) == [t |-> "tuple", v |-> s]

\* AsImmutable(value): an int is returned as it is, a list and a tuple
\* become the tuple of their elements made immutable (the elements are ints)
AsImmutable(value) ==
    IF value.t \in {"list", "tuple"} THEN TupleV(value.v) ELSE value

\* AsImmutable(args), args being the tuple of the positional arguments
ImmutableArgs(args) == [i \in 1..Len(args) |-> AsImmutable(args[i])]

\* AsImmutable(kwargs): the ImmutableDict of the items (name, value made
\* immutable); a dict is the set of its items
ImmutableKwargs(kwargs) == {<<kv[1], AsImmutable(kv[2])>> : kv \in kwargs}

\* the key None
NoneKey == [form |-> "none", args |-> <<>>, kwargs |-> {}]

\* AbstractCachedMethod.GetCacheKey
GetCacheKey(args, kwargs) ==
    IF args # <<>>
    THEN IF kwargs # {}
         THEN [form |-> "both", args |-> ImmutableArgs(args),
               kwargs |-> ImmutableKwargs(kwargs)]
         ELSE [form |-> "args", args |-> ImmutableArgs(args), kwargs |-> {}]
    ELSE IF kwargs # {}
         THEN [form |-> "kwargs", args |-> <<>>,
               kwargs |-> ImmutableKwargs(kwargs)]
         ELSE NoneKey

\* kwargs["_object_id"] = getattr(instance, "id"): the item replaces one of
\* the same name
WithAttr(kwargs, id) ==
    {kv \in kwargs : kv[1] # "_object_id"} \cup {<<"_object_id", IntV(id)>>}

\* self.GetCacheKey(*args, **kwargs) of the cached method c: the one of
\* AttributeBasedCachedMethod adds the watched attribute "id" of the
\* instance to the keyword arguments
CacheKey(c, args, kwargs) ==
    IF c.kind = "attr"
    THEN GetCacheKey(args, WithAttr(kwargs, c.id))
    ELSE GetCacheKey(args, kwargs)

\* Before construction. None as a result is <<>>, the value v is <<v>>.
\* id is the watched attribute of the instance and n_calls how often its
\* method ran; prev is, for the reader of a run, the key of the call before
\* (<<>> when there was none since construction or Clear).
NoCachedMethod ==
    [kind |-> "none", enabled |-> TRUE, key |-> NoneKey, result |-> <<>>,
     results |-> <<>>, cache_size |-> 1, call_count |-> 0, hit_count |-> 0,
     miss_count |-> 0, id |-> 1, n_calls |-> 0, prev |-> <<>>]

\* LastResultCachedMethod(instance.method) for kind "last",
\* AttributeBasedCachedMethod(instance.method, "id", cache_size) for "attr"
CachedMethodInit(kind, cache_size) ==
    [NoCachedMethod EXCEPT !.kind = kind, !.cache_size = cache_size]

\* self._HasResult(key)
HasResult(c, key) ==
    IF c.kind = "last"
    THEN c.key = key
    ELSE \E i \in 1..Len(c.results) : c.results[i].key = key

\* self._GetCacheResult(key, None), the key being present
GetCacheResult(c, key) ==
    IF c.kind = "last"
    THEN c.result
    ELSE c.results[CHOOSE i \in 1..Len(c.results) : c.results[i].key = key].result

\* CachedMethod._AddCacheResult: self._results[key] = result
SetResult(results, key, res) ==
    IF \E i \in 1..Len(results) : results[i].key = key
    THEN [i \in 1..Len(results) |->
            IF results[i].key = key THEN [key |-> key, result |-> res]
            ELSE results[i]]
    ELSE Append(results, [key |-> key, result |-> res])

\* faulty variant: nothing is ever deleted
AddCacheResultKeepAll(c, key, res) ==
    IF c.kind = "last"
    THEN [c EXCEPT !.key = key, !.result = res]
    ELSE [c EXCEPT !.results = SetResult(c.results, key, res)]

\* self._AddCacheResult(key, result)
AddCacheResult(c, key, res) ==
    IF c.kind = "last"
    THEN [c EXCEPT !.key = key, !.result = res]
    ELSE LET set == SetResult(c.results, key, res)
         IN [c EXCEPT !.results = IF Len(set) > c.cache_size
                                   THEN Tail(set) ELSE set]

\* self.DoClear()
DoClear(c) ==
    IF c.kind = "last"
    THEN [c EXCEPT !.key = NoneKey, !.result = <<>>]
    ELSE [c EXCEPT !.results = <<>>]

\* self.ResetCounters()
ResetCounters(c) ==
    [c EXCEPT !.call_count = 0, !.hit_count = 0, !.miss_count = 0]

Idle == frames = <<>> /\ wrapper.pc = "idle"

\* nothing but the registry exists yet
InitOthers ==
    /\ heap = [a \in Addr |-> [gen |-> 0, cls |-> "None", live |-> FALSE]]
    /\ ext = {}
    /\ context = NoToken
    /\ frames = <<>>
    /\ log = <<>>
    /\ result = Done("none", "ok", FALSE)
    /\ wrapper = NoWrapper
    /\ single = NewSingle
    /\ patched = FALSE
    /\ wrapped = NoneWrapped
    /\ aggregator = NewCallbacks
    /\ pcallbacks = <<>>
    /\ handles = [i \in 1..NHandles |-> NoHandle]
    /\ weak_list = <<>>
    /\ weak_set = {}
    /\ added = [list |-> <<>>, set |-> {}]
    /\ cached = NoCachedMethod

Init ==
    /\ callbacks = <<>>
    /\ InitOthers

RECURSIVE SumGen(_, _)
SumGen(h, n) == IF n = 0 THEN 0 ELSE h[n].gen + SumGen(h, n - 1)

\* the instances created so far
Allocated(h) == SumGen(h, NAddr)

\* ------------------------------------------------ the caller's actions
\* obj = Cls(): a new instance, at an address no live object occupies
Alloc(a, cls) ==
    /\ UNCHANGED others
    /\ Idle
    /\ ~heap[a].live
    /\ Allocated(heap) < MaxAllocs
    /\ heap' = [heap EXCEPT ![a] = [gen |-> @.gen + 1, cls |-> cls, live |-> TRUE]]
    /\ ext' = ext \cup {a}
    /\ log' = <<>>
    /\ result' = Done("none", "ok", FALSE)
    /\ UNCHANGED <<callbacks, context, frames>>

\* del obj: the caller drops its reference
DropRef(a) ==
    /\ UNCHANGED others
    /\ Idle
    /\ a \in ext
    /\ ext' = ext \ {a}
    /\ heap' = Reap(heap, ext', callbacks, frames)
    /\ log' = <<>>
    /\ result' = Done("none", "ok", FALSE)
    /\ UNCHANGED <<callbacks, context, frames>>

\* context = callback.Register(func, extra_args); the caller keeps the
\* returned context or throws it away
Register(func, extra_args, keep) ==
    /\ UNCHANGED others
    /\ Idle
    /\ keep /\ context.func = func => context.regs < MaxRepeat
    /\ LET r == RegisterFunc(heap, callbacks, func, extra_args)
       IN /\ callbacks' = r.callbacks
          /\ context' =
                IF keep
                THEN [key |-> r.key, func |-> func, unregs |-> 0,
                      regs |-> IF context.func = func THEN context.regs + 1 ELSE 1]
                ELSE context
          /\ heap' = Reap(heap, ext, r.callbacks, frames)
    /\ log' = <<>>
    /\ result' = Done("none", "ok", FALSE)
    /\ UNCHANGED <<ext, frames>>

\* The functions and priorities of test_priority_callback.py
OnCalls == {"OnCall1", "OnCall2", "OnCall3", "OnCall4", "OnCall5"}
Priorities == {1, 2, 3}

\* the number the caller gives its next registration
NextSerial(cbs) ==
    IF cbs = <<>> THEN 1
    ELSE 1 + CHOOSE s \in 1..MaxSerial :
                 /\ \E i \in 1..Len(cbs) : cbs[i].extra[1] = s
                 /\ \A i \in 1..Len(cbs) : cbs[i].extra[1] <= s

\* What PriorityCallback.Register hands back: the method has no return
\* statement (and is annotated -> None), so the caller gets None, no token.
PriorityRegisterReturn == NoToken

\* token = priority_callback.Register(func, extra_args=(serial,),
\*                                    priority=priority)
PriorityRegister(func, priority) ==
    /\ UNCHANGED others
    /\ Idle
    /\ NextSerial(callbacks) <= MaxSerial
    /\ callbacks' = PriorityRegisterFunc(heap, callbacks, func,
                                         <<NextSerial(callbacks)>>, priority)
    /\ heap' = Reap(heap, ext, callbacks', frames)
    /\ log' = <<>>
    /\ result' = Done("Register", "ok", FALSE)
    /\ context' = PriorityRegisterReturn
    /\ UNCHANGED <<ext, frames>>

\* callback.Unregister(func)
Unregister(func) ==
    /\ UNCHANGED others
    /\ Idle
    /\ context.func = func => context.unregs < MaxRepeat
    /\ LET r == UnregisterFunc(heap, callbacks, func)
       IN /\ callbacks' = r.callbacks
          /\ heap' = Reap(heap, ext, r.callbacks, frames)
          /\ result' = Done("Unregister", IF r.raised THEN "raised" ELSE "ok", FALSE)
    /\ context' = IF context.func = func
                  THEN [context EXCEPT !.regs = 0, !.unregs = @ + 1]
                  ELSE context
    /\ log' = <<>>
    /\ UNCHANGED <<ext, frames>>

\* context.Unregister()
ContextUnregister ==
    /\ UNCHANGED others
    /\ Idle
    /\ context # NoToken
    /\ context.unregs < MaxRepeat
    /\ LET r == UnregisterByKey(callbacks, context.key)
       IN /\ callbacks' = r.callbacks
          /\ heap' = Reap(heap, ext, r.callbacks, frames)
          /\ result' = Done("ContextUnregister",
                            IF r.raised THEN "raised" ELSE "ok", FALSE)
    /\ context' = [context EXCEPT !.regs = 0, !.unregs = @ + 1]
    /\ log' = <<>>
    /\ UNCHANGED <<ext, frames>>

\* callback.UnregisterAll()
UnregisterAll ==
    /\ UNCHANGED others
    /\ Idle
    /\ callbacks' = <<>>
    /\ heap' = Reap(heap, ext, <<>>, frames)
    /\ log' = <<>>
    /\ result' = Done("none", "ok", FALSE)
    /\ context' = [context EXCEPT !.regs = 0]
    /\ UNCHANGED <<ext, frames>>

\* callback.Contains(func)
Contains(func) ==
    /\ UNCHANGED others
    /\ Idle
    /\ LET r == ContainsFunc(heap, callbacks, func)
       IN /\ callbacks' = r.callbacks
          /\ heap' = Reap(heap, ext, r.callbacks, frames)
          /\ result' = ContainsOver(func, callbacks, r.ret)
    /\ log' = <<>>
    /\ UNCHANGED <<ext, context, frames>>

\* ------------------------------------------------------ callback(*args)
\* An activation of __call__: the list it built, the position of the
\* second loop in it and the arguments of the call; start and deleted
\* remember the entries the first loop kept and those it deleted, base the
\* length of the log when the round began.
NewFrame(bt, args, base) ==
    [to_call |-> bt.to_call, idx |-> 1, args |-> args, start |-> bt.callbacks,
     deleted |-> bt.deleted, base |-> base]

\* callback(*args) by the caller: an empty registry returns at once
Call(args) ==
    /\ UNCHANGED others
    /\ Idle
    /\ log' = <<>>
    /\ IF callbacks = <<>>
       THEN /\ result' = CallOver("ok", NoneC, <<>>)
            /\ UNCHANGED <<heap, ext, callbacks, context, frames>>
       ELSE LET bt == BuildToCall(heap, callbacks)
            IN /\ callbacks' = bt.callbacks
               /\ frames' = <<NewFrame(bt, args, 0)>>
               /\ heap' = Reap(heap, ext, bt.callbacks, frames')
               /\ result' = Done("Call", "running", FALSE)
               /\ UNCHANGED <<ext, context>>

Top == frames[Len(frames)]

\* func(*extra_args + args) of the second loop: the invocation is logged
\* with the depth of the activation that made it, what the callable did
\* and the callable it did it on (None if it did it on none)
Invoking ==
    /\ frames # <<>>
    /\ HasNextToCall(Top, callbacks)

Event(did, on) ==
    LET item == NextToCall(Top, callbacks)
    IN [func |-> item.func, args |-> item.extra \o Top.args, depth |-> Len(frames),
        did |-> did, on |-> on]

Invoked == NextToCall(Top, callbacks).func

Advanced == [frames EXCEPT ![Len(frames)].idx = @ + 1]

\* The callables the body of a running callable can name: what the caller
\* holds, and the callable itself.
Nameable == CallablesOf(heap, ext, Functions) \cup {Invoked}

\* the invoked callable returns having touched nothing
InvokeReturn ==
    /\ UNCHANGED others
    /\ Invoking
    /\ log' = Append(log, Event("return", NoneC))
    /\ frames' = Advanced
    /\ UNCHANGED <<heap, ext, callbacks, context, result>>

\* faulty variant: __call__ catches what a callable raises and goes on
InvokeRaiseCaught ==
    /\ UNCHANGED others
    /\ Invoking
    /\ log' = Append(log, Event("raise", NoneC))
    /\ frames' = Advanced
    /\ UNCHANGED <<heap, ext, callbacks, context, result>>

\* the invoked callable raises: nothing in the registry catches it, every
\* activation on the stack is left and the caller sees the exception
InvokeRaise ==
    /\ UNCHANGED others
    /\ Invoking
    /\ log' = Append(log, Event("raise", NoneC))
    /\ frames' = <<>>
    /\ heap' = Reap(heap, ext, callbacks, <<>>)
    /\ result' = CallOver("raised", Invoked, Advanced)
    /\ UNCHANGED <<ext, callbacks, context>>

\* the invoked callable registers a callable in the registry
InvokeRegister(func, extra_args) ==
    /\ UNCHANGED others
    /\ Invoking
    /\ func \in Nameable
    /\ log' = Append(log, Event("register", func))
    /\ frames' = Advanced
    /\ LET r == RegisterFunc(heap, callbacks, func, extra_args)
       IN /\ callbacks' = r.callbacks
          /\ heap' = Reap(heap, ext, r.callbacks, frames')
    /\ UNCHANGED <<ext, context, result>>

\* the invoked callable unregisters a callable (possibly itself)
InvokeUnregister(func) ==
    /\ UNCHANGED others
    /\ Invoking
    /\ func \in Nameable
    /\ log' = Append(log, Event("unregister", func))
    /\ frames' = Advanced
    /\ LET r == UnregisterFunc(heap, callbacks, func)
       IN /\ callbacks' = r.callbacks
          /\ heap' = Reap(heap, ext, r.callbacks, frames')
    /\ UNCHANGED <<ext, context, result>>

\* the invoked callable drops the caller's reference to an instance
InvokeDropRef(a) ==
    /\ UNCHANGED others
    /\ Invoking
    /\ a \in ext
    /\ log' = Append(log, Event("drop", NoneC))
    /\ frames' = Advanced
    /\ ext' = ext \ {a}
    /\ heap' = Reap(heap, ext', callbacks, frames')
    /\ UNCHANGED <<callbacks, context, result>>

NestedCalls == Cardinality({i \in 1..Len(log) : log[i].did = "call"})

\* the invoked callable calls the registry again (a nested round)
InvokeCall(args) ==
    /\ UNCHANGED others
    /\ Invoking
    /\ Len(frames) < MaxDepth
    /\ NestedCalls < MaxNested
    /\ log' = Append(log, Event("call", NoneC))
    /\ IF callbacks = <<>>
       THEN /\ frames' = Advanced
            /\ UNCHANGED <<heap, callbacks>>
       ELSE LET bt == BuildToCall(heap, callbacks)
            IN /\ callbacks' = bt.callbacks
               /\ frames' = Append(Advanced, NewFrame(bt, args, Len(log')))
               /\ heap' = Reap(heap, ext, bt.callbacks, frames')
    /\ UNCHANGED <<ext, context, result>>

\* the second loop is over: __call__ returns
ReturnFromCall ==
    /\ UNCHANGED others
    /\ frames # <<>>
    /\ ~HasNextToCall(Top, callbacks)
    /\ frames' = SubSeq(frames, 1, Len(frames) - 1)
    /\ heap' = Reap(heap, ext, callbacks, frames')
    /\ result' = IF frames' = <<>> THEN CallOver("ok", NoneC, frames) ELSE result
    /\ UNCHANGED <<ext, callbacks, context, log>>

\* --------------------------------------------- Before, After, Remove
Raised(op, exc) ==
    [op |-> op, status |-> "raised", ret |-> FALSE, exc |-> exc, rounds |-> <<>>]

\* The outcome of Remove(method, callback): the value returned, and for the
\* record the callback and the wrapper as it was before.
RemoveOver(callback, before, ret) ==
    [op |-> "Remove", status |-> "ok", ret |-> ret, exc |-> NoneC,
     rounds |-> <<>>, callback |-> callback, before |-> before]

\* the method the hooks are put on: M1 of the instance at the first address
Wrappable == 1 \in ext /\ heap[1].cls = "A"
TheMethod == BoundMethod(WeakRefTo(heap, 1), "M1")

\* Before(obj.M1, callback)
Before(callback) ==
    /\ Idle /\ Wrappable
    /\ wrapper' = CreateBeforeOrAfter(heap, wrapper, TheMethod, callback, TRUE)
    /\ log' = <<>>
    /\ result' = Done("none", "ok", FALSE)
    /\ UNCHANGED <<heap, ext, callbacks, context, frames, single, rest>>

\* After(obj.M1, callback)
After(callback) ==
    /\ Idle /\ Wrappable
    /\ wrapper' = CreateBeforeOrAfter(heap, wrapper, TheMethod, callback, FALSE)
    /\ log' = <<>>
    /\ result' = Done("none", "ok", FALSE)
    /\ UNCHANGED <<heap, ext, callbacks, context, frames, single, rest>>

\* Remove(obj.M1, callback): False when the method has no wrapper
Remove(callback) ==
    /\ Idle /\ Wrappable
    /\ IF wrapper.installed /\ wrapper.method = TheMethod
       THEN LET r == WrapperRemove(heap, wrapper, callback)
            IN /\ wrapper' = r.wrapper
               /\ result' = RemoveOver(callback, wrapper, r.ret)
       ELSE /\ wrapper' = wrapper
            /\ result' = RemoveOver(callback, wrapper, FALSE)
    /\ log' = <<>>
    /\ UNCHANGED <<heap, ext, callbacks, context, frames, single, rest>>

\* wrapper(*args), lines 116-117: the before hooks are called first
WrappedCall(args) ==
    /\ Idle
    /\ wrapper.installed
    /\ LET bt == HookRound(heap, wrapper.has_before, wrapper.before)
       IN wrapper' = [wrapper EXCEPT !.pc = "before", !.args = args,
                                     !.before = bt.callbacks,
                                     !.to_call = bt.to_call,
                                     !.m_ret = 0, !.hook_ret = 0, !.ret = 0,
                                     !.deleted = bt.deleted]
    /\ log' = <<>>
    /\ result' = Done("WrappedCall", "running", FALSE)
    /\ UNCHANGED <<heap, ext, callbacks, context, frames, single, rest>>

InHooks == wrapper.pc \in {"before", "after"} /\ wrapper.to_call # <<>>

\* func(*extra_args + args); when func is a _CallbackWrapper, its __call__
\* resolves callback and sender and calls callback(sender(), *args)
HookEvent(did) ==
    LET item == Head(wrapper.to_call)
    IN IF item.func.kind = "cbwrapper"
       THEN [func |-> item.func.inner,
             args |-> <<SenderArg(heap, item.extra[1])>> \o wrapper.args,
             depth |-> 1, did |-> did, sender |-> item.extra[1]]
       ELSE [func |-> item.func, args |-> item.extra \o wrapper.args,
             depth |-> 1, did |-> did]

\* _CallbackWrapper.__call__ finds weak_method_callback() is None
HookCallbackDead ==
    /\ Head(wrapper.to_call).func.kind = "cbwrapper"
    /\ OriginalMethodDead(heap, Head(wrapper.to_call).func)

\* the next hook is invoked and returns v
HookReturn(v) ==
    /\ InHooks /\ ~HookCallbackDead
    /\ log' = Append(log, HookEvent("return"))
    /\ wrapper' = [wrapper EXCEPT !.to_call = Tail(@), !.hook_ret = v]
    /\ UNCHANGED <<heap, ext, callbacks, context, frames, result, single, rest>>

\* faulty variant: the exception of a hook is handled inside the registry
\* and the round goes on
HookRaiseHandled ==
    /\ InHooks
    /\ IF HookCallbackDead
       THEN log' = log
       ELSE log' = Append(log, HookEvent("raise"))
    /\ wrapper' = [wrapper EXCEPT !.to_call = Tail(@)]
    /\ UNCHANGED <<heap, ext, callbacks, context, frames, result, single, rest>>

\* the next hook is invoked and raises: the call of the wrapper is over
HookRaise ==
    /\ InHooks
    /\ IF HookCallbackDead
       THEN /\ log' = log
            /\ result' = Raised("WrappedCall", ReferenceError)
       ELSE /\ log' = Append(log, HookEvent("raise"))
            /\ result' = Raised("WrappedCall", HookEvent("raise").func)
    /\ wrapper' = [wrapper EXCEPT !.to_call = <<>>, !.pc = "idle"]
    /\ UNCHANGED <<heap, ext, callbacks, context, frames, single, rest>>

\* faulty variant: the method is called without looking whether its
\* receiver is alive
CallOriginalUnchecked(v) ==
    /\ wrapper.pc = "before" /\ wrapper.to_call = <<>>
    /\ LET bt == HookRound(heap, wrapper.has_after, wrapper.after)
       IN /\ wrapper' = [wrapper EXCEPT !.pc = "after", !.m_ret = v,
                                        !.after = bt.callbacks,
                                        !.to_call = bt.to_call,
                                        !.deleted = @ \o bt.deleted]
          /\ log' = Append(log, [func |-> wrapper.method, args |-> wrapper.args,
                                 depth |-> 1, did |-> "original"])
          /\ result' = result
    /\ UNCHANGED <<heap, ext, callbacks, context, frames, single, rest>>

\* lines 119-129: the original method is resolved, called with the
\* arguments of the call, and returns v; then the after hooks are called
CallOriginal(v) ==
    /\ wrapper.pc = "before" /\ wrapper.to_call = <<>>
    /\ IF ~Resolves(heap, wrapper.method.ref)
       THEN /\ wrapper' = [wrapper EXCEPT !.pc = "idle"]
            /\ result' = Raised("WrappedCall", ReferenceError)
            /\ log' = log
       ELSE LET bt == HookRound(heap, wrapper.has_after, wrapper.after)
            IN /\ wrapper' = [wrapper EXCEPT !.pc = "after", !.m_ret = v,
                                             !.after = bt.callbacks,
                                             !.to_call = bt.to_call,
                                             !.deleted = @ \o bt.deleted]
               /\ log' = Append(log, [func |-> wrapper.method, args |-> wrapper.args,
                                      depth |-> 1, did |-> "original"])
               /\ result' = result
    /\ UNCHANGED <<heap, ext, callbacks, context, frames, single, rest>>

\* line 125: the original method is resolved and called, and raises: the
\* call of the wrapper is over
OriginalRaise ==
    /\ wrapper.pc = "before" /\ wrapper.to_call = <<>>
    /\ Resolves(heap, wrapper.method.ref)
    /\ wrapper' = [wrapper EXCEPT !.pc = "idle"]
    /\ log' = Append(log, [func |-> wrapper.method, args |-> wrapper.args,
                           depth |-> 1, did |-> "original raise"])
    /\ result' = Raised("WrappedCall", wrapper.method)
    /\ UNCHANGED <<heap, ext, callbacks, context, frames, single, rest>>

\* line 131: return result
WrapperReturn ==
    /\ wrapper.pc = "after" /\ wrapper.to_call = <<>>
    /\ wrapper' = [wrapper EXCEPT !.pc = "idle", !.ret = WrapperResult(wrapper)]
    /\ result' = Done("WrappedCall", "ok", FALSE)
    /\ UNCHANGED <<heap, ext, callbacks, context, frames, log, single, rest>>

\* Hooks before and after the method of one instance; the hooks are functions
\* and bound methods of the other instances.
NextWrapper ==
    \/ \E a \in Addr : Alloc(a, "A")
    \/ \E a \in Addr : DropRef(a)
    \/ \E callback \in CallablesOf(heap, ext \ {1}, Functions) : Before(callback)
    \/ \E callback \in CallablesOf(heap, ext \ {1}, Functions) : After(callback)
    \/ \E callback \in CallablesOf(heap, ext \ {1}, Functions) : Remove(callback)
    \/ \E args \in {<<10>>} : WrappedCall(args)
    \/ \E v \in ReturnValues : HookReturn(v)
    \/ HookRaise
    \/ \E v \in ReturnValues : CallOriginal(v)
    \/ OriginalRaise
    \/ WrapperReturn

SpecWrapper == Init /\ [][NextWrapper]_vars

\* Before(obj.M1, callback, sender_as_parameter=True)
BeforeSender(callback) ==
    /\ Idle /\ Wrappable
    /\ wrapper' = CreateBeforeOrAfterSender(heap, wrapper, TheMethod, callback, TRUE)
    /\ log' = <<>>
    /\ result' = Done("none", "ok", FALSE)
    /\ UNCHANGED <<heap, ext, callbacks, context, frames, single, rest>>

\* After(obj.M1, callback, sender_as_parameter=True)
AfterSender(callback) ==
    /\ Idle /\ Wrappable
    /\ wrapper' = CreateBeforeOrAfterSender(heap, wrapper, TheMethod, callback, FALSE)
    /\ log' = <<>>
    /\ result' = Done("none", "ok", FALSE)
    /\ UNCHANGED <<heap, ext, callbacks, context, frames, single, rest>>

\* Hooks that want the sender, before and after the method of one instance;
\* the caller may keep the wrapper (w = obj.M1) and call it after obj died.
NextSender ==
    \/ \E a \in Addr : Alloc(a, "A")
    \/ \E a \in Addr : DropRef(a)
    \/ \E callback \in CallablesOf(heap, ext \ {1}, Functions) : BeforeSender(callback)
    \/ \E callback \in CallablesOf(heap, ext \ {1}, {"F1"}) : AfterSender(callback)
    \/ \E callback \in CallablesOf(heap, ext \ {1}, {"F1"}) : Before(callback)
    \/ \E callback \in CallablesOf(heap, ext \ {1}, Functions) : Remove(callback)
    \/ \E args \in {<<10>>} : WrappedCall(args)
    \/ \E v \in {1} : HookReturn(v)
    \/ HookRaise
    \/ \E v \in {1} : CallOriginal(v)
    \/ WrapperReturn

SpecSender == Init /\ [][NextSender]_vars

\* The outcome of instance.foo(*args)
MethodCallOver(inst, args) ==
    [op |-> "MethodCall", status |-> "ok", ret |-> FALSE, exc |-> NoneC,
     rounds |-> <<>>, inst |-> inst, args |-> args]

\* Before(C.foo, callback) with via = 0, Before(instance.foo, callback) with
\* via = the instance
BeforeVia(via, callback) ==
    /\ Idle
    /\ wrapped' = CreateBeforeOrAfterVia(heap, wrapped, MethodVia(wrapped, via),
                                         callback, TRUE)
    /\ log' = <<>>
    /\ result' = Done("none", "ok", FALSE)
    /\ UNCHANGED <<heap, ext, callbacks, context, frames, wrapper, single, patched, aux>>

\* After(C.foo, callback), After(instance.foo, callback)
AfterVia(via, callback) ==
    /\ Idle
    /\ wrapped' = CreateBeforeOrAfterVia(heap, wrapped, MethodVia(wrapped, via),
                                         callback, FALSE)
    /\ log' = <<>>
    /\ result' = Done("none", "ok", FALSE)
    /\ UNCHANGED <<heap, ext, callbacks, context, frames, wrapper, single, patched, aux>>

\* instance.foo(*args), with hooks that return
MethodCall(inst, args) ==
    /\ Idle
    /\ log' = CallMethod(heap, wrapped, inst, args)
    /\ result' = MethodCallOver(inst, args)
    /\ UNCHANGED <<heap, ext, callbacks, context, frames, wrapper, single, rest>>

\* Hooks put on the method through the class and through two instances, in
\* any order; one function serves as before hook, two as after hooks.
NextLayers ==
    \/ \E via \in {0} \cup Instances : BeforeVia(via, FreeFunc("F1"))
    \/ \E via \in {0} \cup Instances, f \in Functions : AfterVia(via, FreeFunc(f))
    \/ \E inst \in Instances, args \in {<<10>>} : MethodCall(inst, args)

SpecLayers == Init /\ [][NextLayers]_vars

\* ------------------------------------------------ SingleCallCallback
\* callback = SingleCallCallback(obj), obj the instance at address a
SingleInit(a) ==
    /\ Idle
    /\ a \in ext
    /\ single' = [done |-> FALSE, args |-> <<>>, has_param |-> TRUE,
                  param |-> WeakRefTo(heap, a), again |-> FALSE]
    /\ callbacks' = <<>>
    /\ heap' = Reap(heap, ext, <<>>, frames)
    /\ log' = <<>>
    /\ result' = Done("none", "ok", FALSE)
    /\ UNCHANGED <<ext, context, frames, wrapper, rest>>

\* callback(*args); the log starts anew with a call that goes through
SingleCall(args) ==
    /\ Idle
    /\ IF CalledOnce(single)
       THEN /\ result' = Raised("SingleCall", AssertionError)
            /\ UNCHANGED <<heap, callbacks, frames, log, single>>
       ELSE IF ParamDead(heap, single)
       THEN /\ single' = [single EXCEPT !.args = args]
            /\ result' = Raised("SingleCall", ReferenceError)
            /\ UNCHANGED <<heap, callbacks, frames, log>>
       ELSE /\ single' = [single EXCEPT !.args = args, !.done = TRUE]
            /\ log' = <<>>
            /\ IF callbacks = <<>>
               THEN /\ result' = CallOver("ok", NoneC, <<>>)
                    /\ UNCHANGED <<heap, callbacks, frames>>
               ELSE LET bt == BuildToCall(heap, callbacks)
                    IN /\ callbacks' = bt.callbacks
                       /\ frames' = <<NewFrame(bt, WithParam(single, args), 0)>>
                       /\ heap' = Reap(heap, ext, bt.callbacks, frames')
                       /\ result' = Done("Call", "running", FALSE)
    /\ UNCHANGED <<ext, context, wrapper, rest>>

\* callback.Register(fn); when the call is replayed, fn returns or raises
SingleRegister(fn, raises) ==
    /\ Idle
    /\ IF ParamDead(heap, single)
       THEN /\ ~raises
            /\ result' = Raised("SingleRegister", ReferenceError)
            /\ UNCHANGED <<heap, callbacks, log>>
       ELSE LET contains == ContainsFunc(heap, callbacks, fn)
                r == RegisterFunc(heap, contains.callbacks, fn, <<>>)
            IN /\ callbacks' = r.callbacks
               /\ heap' = Reap(heap, ext, r.callbacks, frames)
               /\ IF Replays(single, contains.ret)
                  THEN /\ Len(log) < MaxLog
                       /\ log' = Append(log,
                                  [func |-> fn, args |-> WithParam(single, single.args),
                                   depth |-> 0,
                                   did |-> IF raises THEN "raise" ELSE "return"])
                       /\ result' = IF raises THEN Raised("SingleRegister", fn)
                                     ELSE Done("SingleRegister", "ok", FALSE)
                  ELSE /\ ~raises
                       /\ log' = log
                       /\ result' = Done("SingleRegister", "ok", FALSE)
    /\ UNCHANGED <<ext, context, frames, wrapper, single, rest>>

\* callback.Unregister(fn)
SingleUnregister(fn) ==
    /\ Idle
    /\ callbacks' = UnregisterFunc(heap, callbacks, fn).callbacks
    /\ heap' = Reap(heap, ext, callbacks', frames)
    /\ result' = Done("Unregister", "ok", FALSE)
    /\ UNCHANGED <<ext, context, frames, log, wrapper, single, rest>>

\* callback.AllowCallingAgain(); again records, for the reader of a run,
\* that a callback that had fired was allowed to fire again
AllowCallingAgain ==
    /\ Idle
    /\ single' = [single EXCEPT !.done = FALSE, !.again = @ \/ single.done]
    /\ result' = Done("none", "ok", FALSE)
    /\ UNCHANGED <<heap, ext, callbacks, context, frames, log, wrapper, rest>>

\* A SingleCallCallback with or without a parameter; the callables are a
\* function and the bound method of an instance.
NextSingle ==
    \/ Alloc(1, "A")
    \/ DropRef(1)
    \/ SingleInit(1)
    \/ \E args \in CallArgs : SingleCall(args)
    \/ \E fn \in CallablesOf(heap, ext, {"F1"}), raises \in BOOLEAN :
            SingleRegister(fn, raises)
    \/ \E fn \in CallablesOf(heap, ext, {"F1"}) : SingleUnregister(fn)
    \/ AllowCallingAgain
    \/ InvokeReturn
    \/ InvokeRaise
    \/ ReturnFromCall

SpecSingle == Init /\ [][NextSingle]_vars

\* ------------------------------------------------- Callbacks: actions
\* The outcome of RemoveAll or of leaving the scope of a Callbacks object:
\* whether an exception left it, and for the record what had been
\* registered through the object
RemoveAllOver(op, exc, through) ==
    [op |-> op, status |-> IF exc = NoneC THEN "ok" ELSE "raised", ret |-> FALSE,
     exc |-> exc, rounds |-> <<>>, through |-> through]

\* callbacks.Before(obj.M1, callback, sender_as_parameter=...)
CallbacksBefore(callback, sender_as_parameter) ==
    /\ Idle /\ Wrappable
    /\ Len(aggregator.function_callbacks) < MaxHeld
    /\ wrapper' = IF sender_as_parameter
                  THEN CreateBeforeOrAfterSender(heap, wrapper, TheMethod, callback, TRUE)
                  ELSE CreateBeforeOrAfter(heap, wrapper, TheMethod, callback, TRUE)
    /\ aggregator' = AppendPair(aggregator, TheMethod, callback, "before")
    /\ log' = <<>>
    /\ result' = Done("none", "ok", FALSE)
    /\ UNCHANGED <<heap, ext, callbacks, context, frames, single, patched, wrapped,
                   pcallbacks, handles, containers, cached>>

\* callbacks.After(obj.M1, callback, sender_as_parameter=...)
CallbacksAfter(callback, sender_as_parameter) ==
    /\ Idle /\ Wrappable
    /\ Len(aggregator.function_callbacks) < MaxHeld
    /\ wrapper' = IF sender_as_parameter
                  THEN CreateBeforeOrAfterSender(heap, wrapper, TheMethod, callback, FALSE)
                  ELSE CreateBeforeOrAfter(heap, wrapper, TheMethod, callback, FALSE)
    /\ aggregator' = AppendPair(aggregator, TheMethod, callback, "after")
    /\ log' = <<>>
    /\ result' = Done("none", "ok", FALSE)
    /\ UNCHANGED <<heap, ext, callbacks, context, frames, single, patched, wrapped,
                   pcallbacks, handles, containers, cached>>

\* callbacks.Register(c, func), c a Callback
CallbacksRegister(func) ==
    /\ Idle
    /\ Len(aggregator.contexts) < MaxHeld
    /\ LET r == RegisterFunc(heap, callbacks, func, <<>>)
       IN /\ callbacks' = r.callbacks
          /\ aggregator' = AppendContext(aggregator,
                                         [key |-> r.key, func |-> func,
                                          regs |-> 1, unregs |-> 0],
                                         func, "callback")
    /\ log' = <<>>
    /\ result' = Done("none", "ok", FALSE)
    /\ UNCHANGED <<heap, ext, context, frames, wrapper, single, patched, wrapped,
                   pcallbacks, handles, containers, cached>>

\* callbacks.Register(pc, func), pc a PriorityCallback
CallbacksPriorityRegister(func) ==
    /\ Idle
    /\ Len(aggregator.contexts) < MaxHeld
    /\ pcallbacks' = PriorityRegisterFunc(heap, pcallbacks, func, <<>>, 5)
    /\ aggregator' = AppendContext(aggregator, PriorityRegisterReturn, func, "priority")
    /\ log' = <<>>
    /\ result' = Done("none", "ok", FALSE)
    /\ UNCHANGED <<heap, ext, callbacks, context, frames, wrapper, single, patched,
                   wrapped, handles, containers, cached>>

\* callbacks.RemoveAll(), or the end of "with Callbacks() as callbacks:"
\* whose body raised or did not (__exit__ calls RemoveAll and returns None)
RemoveAll(op, body_raised) ==
    /\ Idle
    /\ LET r == RemoveAllOf(heap, aggregator, wrapper, callbacks)
       IN /\ wrapper' = r.wrapper
          /\ callbacks' = r.callbacks
          /\ aggregator' = r.aggregator
          /\ result' = RemoveAllOver(op,
                                     IF r.raised THEN AttributeError
                                     ELSE IF body_raised THEN AssertionError
                                     ELSE NoneC,
                                     aggregator.through)
    /\ log' = <<>>
    /\ UNCHANGED <<heap, ext, context, frames, single, patched, wrapped, pcallbacks,
                   handles, containers, cached>>

\* A Callbacks object over the wrapper of one method, a Callback and a
\* PriorityCallback, next to a caller who removes hooks and unregisters
\* functions directly. The object holds its pairs strongly: the hooks given
\* to it are functions, which nothing lets die.
NextCallbacks ==
    \/ \E a \in Addr : Alloc(a, "A")
    \/ \E a \in Addr : DropRef(a)
    \/ \E callback \in CallablesOf(heap, {}, Functions), s \in BOOLEAN :
          CallbacksBefore(callback, s)
    \/ \E callback \in CallablesOf(heap, {}, {"F1"}) : CallbacksAfter(callback, FALSE)
    \/ \E func \in CallablesOf(heap, ext \ {1}, {"F1"}) : CallbacksRegister(func)
    \/ \E func \in CallablesOf(heap, {}, {"F1"}) : CallbacksPriorityRegister(func)
    \/ \E callback \in CallablesOf(heap, {}, {"F1"}) : Remove(callback)
    \/ \E func \in CallablesOf(heap, {}, {"F1"}) : Unregister(func)
    \/ RemoveAll("RemoveAll", FALSE)
    \/ \E body_raised \in BOOLEAN : RemoveAll("Exit", body_raised)

SpecCallbacks == Init /\ [][NextCallbacks]_vars

\* ------------------------------------------- weak handles: actions
\* The outcome of an operation on handles or of IsSame: the value returned
\* or the exception raised, and for the record what it was applied to
WeakOver(op, on, exc, ret) ==
    [op |-> op, status |-> IF exc = NoneC THEN "ok" ELSE "raised", ret |-> ret,
     exc |-> exc, rounds |-> <<>>, on |-> on]

\* handles[i] = WeakMethodRef(method) or WeakMethodProxy(method)
NewHandle(i, method, proxy) ==
    /\ Idle
    /\ handles' = [handles EXCEPT ![i] = WeakMethodRefInit(heap, method, proxy)]
    /\ log' = <<>>
    /\ result' = Done("none", "ok", FALSE)
    /\ UNCHANGED <<heap, ext, callbacks, context, frames, wrapper, single, patched,
                   wrapped, aggregator, pcallbacks, containers, cached>>

\* handles[i]() for a WeakMethodRef
ResolveHandle(i) ==
    /\ Idle
    /\ handles[i] # NoHandle /\ ~handles[i].proxy
    /\ log' = <<>>
    /\ result' = WeakOver("Resolve", <<i>>, NoneC, WeakMethodRefCall(heap, handles[i]))
    /\ UNCHANGED <<heap, ext, callbacks, context, frames, wrapper, single, rest>>

\* handles[i](*args) for a WeakMethodProxy: the method is called, or
\* ReferenceError is raised
CallProxy(i, args) ==
    /\ Idle
    /\ handles[i] # NoHandle /\ handles[i].proxy
    /\ LET func == WeakMethodRefCall(heap, handles[i])
       IN IF func = NoneC
          THEN /\ log' = <<>>
               /\ result' = WeakOver("CallProxy", <<i>>, ReferenceError, NoneC)
          ELSE /\ log' = <<[func |-> func, args |-> args, depth |-> 0,
                            did |-> "return"]>>
               /\ result' = WeakOver("CallProxy", <<i>>, NoneC, NoneC)
    /\ UNCHANGED <<heap, ext, callbacks, context, frames, wrapper, single, rest>>

\* handles[i] == handles[j]
EqHandles(i, j) ==
    /\ Idle
    /\ handles[i] # NoHandle /\ handles[j] # NoHandle
    /\ log' = <<>>
    /\ result' = WeakOver("Eq", <<i, j>>, NoneC, WeakMethodEq(heap, handles[i], handles[j]))
    /\ UNCHANGED <<heap, ext, callbacks, context, frames, wrapper, single, rest>>

\* hash(handles[i])
HashHandle(i) ==
    /\ Idle
    /\ handles[i] # NoHandle
    /\ LET r == WeakMethodHash(heap, handles[i])
       IN /\ handles' = [handles EXCEPT ![i] = r.handle]
          /\ result' = WeakOver("Hash", <<i>>, NoneC, r.ret)
    /\ log' = <<>>
    /\ UNCHANGED <<heap, ext, callbacks, context, frames, wrapper, single, patched,
                   wrapped, aggregator, pcallbacks, containers, cached>>

\* the instances, weak references and proxies a caller can pass: the
\* instances it holds, None, and references and proxies to the instance
\* that is or was last at an address
Values ==
    {NoneValue}
    \cup {Value("obj", WeakRefTo(heap, a)) : a \in ext}
    \cup {Value(k, WeakRefTo(heap, a)) :
            k \in {"ref", "proxy"}, a \in {x \in Addr : heap[x].gen > 0}}

\* IsSame(o1, o2)
IsSameCall(o1, o2) ==
    /\ Idle
    /\ LET r == IsSame(heap, o1, o2)
       IN result' = WeakOver("IsSame", <<o1, o2>>,
                             IF r.raised THEN ReferenceError ELSE NoneC, r.ret)
    /\ log' = <<>>
    /\ UNCHANGED <<heap, ext, callbacks, context, frames, wrapper, single, rest>>

\* ------------------------------------- WeakList, WeakSet: actions
\* Whether the object of an item is alive; a function always is
ItemAlive(h, item) == item.ref = NoRef \/ Resolves(h, item.ref)

\* The items among those the caller put in that are alive
AliveItems(h, items) == SelectSeq(items, LAMBDA x : ItemAlive(h, x))

\* items without the first occurrence of item
RECURSIVE WithoutFirst(_, _)
WithoutFirst(items, item) ==
    IF items = <<>> THEN <<>>
    ELSE IF Head(items) = item THEN Tail(items)
    ELSE <<Head(items)>> \o WithoutFirst(Tail(items), item)

\* weak_list.append(item)
ListAppend(item) ==
    /\ Idle
    /\ Len(weak_list) < MaxEntries
    /\ weak_list' = Append(weak_list, GetWeakRef(item))
    /\ added' = [added EXCEPT !.list = Append(AliveItems(heap, @), item)]
    /\ log' = <<>>
    /\ result' = WeakOver("ListAppend", <<item>>, NoneC, NoneC)
    /\ UNCHANGED <<heap, ext, callbacks, context, frames, wrapper, single, patched,
                   wrapped, aggregator, pcallbacks, handles, weak_set, cached>>

\* weak_list.remove(item)
ListRemoveItem(item) ==
    /\ Idle
    /\ weak_list' = WeakListRemove(heap, weak_list, weak_list, item)
    /\ added' = [added EXCEPT !.list = WithoutFirst(AliveItems(heap, @), item)]
    /\ log' = <<>>
    /\ result' = WeakOver("ListRemove", <<item>>, NoneC, NoneC)
    /\ UNCHANGED <<heap, ext, callbacks, context, frames, wrapper, single, patched,
                   wrapped, aggregator, pcallbacks, handles, weak_set, cached>>

\* list(weak_list) when len is FALSE, len(weak_list) when it is TRUE; for
\* the record, how many references the list held before
ListIter(len) ==
    /\ Idle
    /\ LET r == WeakListIter(heap, weak_list, weak_list)
       IN /\ weak_list' = r.data
          /\ result' = IF len
                       THEN WeakOver("ListLen", <<Len(weak_list)>>, NoneC,
                                     Len(r.yielded))
                       ELSE WeakOver("ListIter", <<Len(weak_list)>>, NoneC,
                                     r.yielded)
    /\ added' = [added EXCEPT !.list = AliveItems(heap, @)]
    /\ log' = <<>>
    /\ UNCHANGED <<heap, ext, callbacks, context, frames, wrapper, single, patched,
                   wrapped, aggregator, pcallbacks, handles, weak_set, cached>>

\* weak_set.add(item)
SetAdd(item) ==
    /\ Idle
    /\ Cardinality(weak_set) < MaxEntries
    /\ weak_set' = WeakSetAdd(heap, weak_set, item)
    /\ added' = [added EXCEPT !.set = {x \in @ : ItemAlive(heap, x)} \cup {item}]
    /\ log' = <<>>
    /\ result' = WeakOver("SetAdd", <<item>>, NoneC, NoneC)
    /\ UNCHANGED <<heap, ext, callbacks, context, frames, wrapper, single, patched,
                   wrapped, aggregator, pcallbacks, handles, weak_list, cached>>

\* weak_set.remove(item)
SetRemoveItem(item) ==
    /\ Idle
    /\ LET r == WeakSetRemove(heap, weak_set, item)
       IN /\ weak_set' = r.data
          /\ result' = WeakOver("SetRemove", <<item>>,
                                IF r.raised THEN KeyError ELSE NoneC, NoneC)
    /\ added' = [added EXCEPT !.set = {x \in @ : ItemAlive(heap, x)} \ {item}]
    /\ log' = <<>>
    /\ UNCHANGED <<heap, ext, callbacks, context, frames, wrapper, single, patched,
                   wrapped, aggregator, pcallbacks, handles, weak_list, cached>>

\* set(weak_set) when len is FALSE, len(weak_set) when it is TRUE
SetIter(len) ==
    /\ Idle
    /\ LET r == WeakSetIter(heap, weak_set, weak_set)
       IN /\ weak_set' = r.data
          /\ result' = IF len
                       THEN WeakOver("SetLen", <<Cardinality(weak_set)>>, NoneC,
                                     Cardinality(r.yielded))
                       ELSE WeakOver("SetIter", <<Cardinality(weak_set)>>, NoneC,
                                     r.yielded)
    /\ added' = [added EXCEPT !.set = {x \in @ : ItemAlive(heap, x)}]
    /\ log' = <<>>
    /\ UNCHANGED <<heap, ext, callbacks, context, frames, wrapper, single, patched,
                   wrapped, aggregator, pcallbacks, handles, weak_list, cached>>

\* the objects a caller can put into a container: the instances it holds,
\* their methods, and a function
Items ==
    {FreeFunc("F1")}
    \cup {Instance(WeakRefTo(heap, a)) : a \in ext}
    \cup {BoundMethod(WeakRefTo(heap, a), "M1") : a \in ext}

\* the caller has not used the WeakList, the WeakSet
ListUnused == weak_list = <<>> /\ added.list = <<>>
SetUnused == weak_set = {} /\ added.set = {}

\* A WeakList or a WeakSet of objects that come and go; a run uses one of
\* the two.
NextContainers ==
    \/ \E a \in Addr : Alloc(a, "A")
    \/ \E a \in Addr : DropRef(a)
    \/ \E item \in Items \ {FreeFunc("F1")} : SetUnused /\ ListAppend(item)
    \/ \E item \in Items \ {FreeFunc("F1")} : SetUnused /\ ListRemoveItem(item)
    \/ \E len \in BOOLEAN : SetUnused /\ ListIter(len)
    \/ \E item \in Items : ListUnused /\ SetAdd(item)
    \/ \E item \in Items : ListUnused /\ SetRemoveItem(item)
    \/ \E len \in BOOLEAN : ListUnused /\ SetIter(len)

SpecContainers == Init /\ [][NextContainers]_vars

\* what a call of the wrapped method raises
MethodError == [kind |-> "error", ref |-> NoRef, name |-> "RuntimeError"]

\* The outcome of a call of the cached method: the value returned, and for
\* the record the key of the call, whether the stored result was used, and
\* the cached method as it was before.
CachedOver(exc, ret, key, hit, before) ==
    [op |-> "CachedCall", status |-> IF exc = NoneC THEN "ok" ELSE "raised",
     ret |-> ret, exc |-> exc, rounds |-> <<>>, key |-> key, hit |-> hit,
     before |-> before]

\* cached = LastResultCachedMethod(...) or AttributeBasedCachedMethod(...)
NewCachedMethod(kind, cache_size) ==
    /\ cached.kind = "none"
    /\ cached' = CachedMethodInit(kind, cache_size)
    /\ result' = Done("NewCachedMethod", "ok", FALSE)
    /\ UNCHANGED <<heap, ext, callbacks, context, frames, log, wrapper, single,
                   patched, wrapped, aggregator, pcallbacks, handles,
                   containers>>

\* cached(*args, **kwargs); the wrapped method returns how often it ran, or
\* raises
CachedCall(args, kwargs, raises) ==
    /\ cached.kind # "none"
    /\ cached.n_calls < MaxCalls
    /\ cached.hit_count < MaxCalls
    /\ LET key == CacheKey(cached, args, kwargs)
           seen == [cached EXCEPT !.prev = <<key>>]
       IN IF cached.enabled /\ HasResult(cached, key)
          THEN /\ cached' = [seen EXCEPT !.hit_count = @ + 1,
                                         !.call_count = @ + 1]
               /\ result' = CachedOver(NoneC, GetCacheResult(cached, key),
                                       key, TRUE, cached)
          ELSE LET missed == [seen EXCEPT !.miss_count = @ + 1,
                                          !.n_calls = @ + 1]
               IN IF raises
                  THEN /\ cached' = missed
                       /\ result' = CachedOver(MethodError, <<>>, key, FALSE,
                                               cached)
                  ELSE /\ cached' = [AddCacheResult(missed, key,
                                                    <<missed.n_calls>>)
                                       EXCEPT !.call_count = @ + 1]
                       /\ result' = CachedOver(NoneC, <<missed.n_calls>>, key,
                                               FALSE, cached)
    /\ UNCHANGED <<heap, ext, callbacks, context, frames, log, wrapper, single,
                   patched, wrapped, aggregator, pcallbacks, handles,
                   containers>>

\* cached.Clear()
CachedClear ==
    /\ cached.kind # "none"
    /\ cached' = [ResetCounters(DoClear(cached)) EXCEPT !.prev = <<>>]
    /\ result' = Done("Clear", "ok", FALSE)
    /\ UNCHANGED <<heap, ext, callbacks, context, frames, log, wrapper, single,
                   patched, wrapped, aggregator, pcallbacks, handles,
                   containers>>

\* cached.enabled = value
SetEnabled(value) ==
    /\ cached.kind # "none"
    /\ cached.enabled # value
    /\ cached' = [cached EXCEPT !.enabled = value]
    /\ result' = Done("SetEnabled", "ok", FALSE)
    /\ UNCHANGED <<heap, ext, callbacks, context, frames, log, wrapper, single,
                   patched, wrapped, aggregator, pcallbacks, handles,
                   containers>>

\* instance.id = value
SetAttr(value) ==
    /\ cached.kind = "attr"
    /\ cached.id # value
    /\ cached' = [cached EXCEPT !.id = value]
    /\ result' = Done("SetAttr", "ok", FALSE)
    /\ UNCHANGED <<heap, ext, callbacks, context, frames, log, wrapper, single,
                   patched, wrapped, aggregator, pcallbacks, handles,
                   containers>>

\* the positional and the keyword arguments of the calls
CachedArgs == {<<>>, <<IntV(1)>>, <<IntV(2)>>, <<ListV(<<1>>)>>, <<TupleV(<<1>>)>>}
CachedKwargs == {{}, {<<"x", IntV(1)>>}}
CacheSizes == {0, 1, 2}
AttrValues == {1, 3}
AttrArgs == {<<>>, <<IntV(1)>>, <<IntV(2)>>}

\* A LastResultCachedMethod around a method that returns or raises, called
\* with and without arguments, cleared, disabled and enabled again.
NextLastResult ==
    \/ NewCachedMethod("last", 1)
    \/ \E args \in CachedArgs, kwargs \in CachedKwargs, raises \in BOOLEAN :
          CachedCall(args, kwargs, raises)
    \/ CachedClear
    \/ \E value \in BOOLEAN : SetEnabled(value)

SpecLastResult == Init /\ [][NextLastResult]_vars

\* An AttributeBasedCachedMethod watching the attribute id, with each cache
\* size.
NextAttributeBased ==
    \/ \E n \in CacheSizes : NewCachedMethod("attr", n)
    \/ \E args \in AttrArgs, raises \in BOOLEAN : CachedCall(args, {}, raises)
    \/ CachedClear
    \/ \E value \in BOOLEAN : SetEnabled(value)
    \/ \E value \in AttrValues : SetAttr(value)

SpecAttributeBased == Init /\ [][NextAttributeBased]_vars

\* Handles and proxies to a function and to the method of instances that
\* come and go.
NextWeak ==
    \/ \E a \in Addr : Alloc(a, "A")
    \/ \E a \in Addr : DropRef(a)
    \/ \E i \in 1..NHandles, proxy \in BOOLEAN,
          method \in {FreeFunc("F1")} \cup
                     {BoundMethod(WeakRefTo(heap, a), "M1") : a \in ext} :
          NewHandle(i, method, proxy)
    \/ \E i \in 1..NHandles : ResolveHandle(i)
    \/ \E i \in 1..NHandles : CallProxy(i, <<10>>)
    \/ \E i, j \in 1..NHandles : EqHandles(i, j)
    \/ \E i \in 1..NHandles : HashHandle(i)

SpecWeak == Init /\ [][NextWeak]_vars

\* IsSame over instances that come and go: of a class with the default
\* __eq__, of _Stub, whose __eq__ says yes to everything, and of a class
\* with __call__.
NextSame ==
    \/ \E a \in Addr, cls \in {"A", "Stub", "Obj"} : Alloc(a, cls)
    \/ \E a \in Addr : DropRef(a)
    \/ \E o1, o2 \in Values : IsSameCall(o1, o2)

SpecSame == Init /\ [][NextSame]_vars

\* The registry with every kind of callable, the life cycle of the
\* instances, and rounds whose callables return or raise.
Next ==
    \/ \E a \in Addr, cls \in Classes : Alloc(a, cls)
    \/ \E a \in Addr : DropRef(a)
    \/ \E func \in CallablesOf(heap, ext, {"F1"}) : Register(func, <<>>, FALSE)
    \/ \E func \in CallablesOf(heap, ext, {"F1"}) : Unregister(func)
    \/ UnregisterAll
    \/ \E func \in CallablesOf(heap, ext, {"F1"}) : Contains(func)
    \/ \E args \in {<<10>>} : Call(args)
    \/ InvokeReturn
    \/ InvokeRaise
    \/ ReturnFromCall

Spec == Init /\ [][Next]_vars

\* A PriorityCallback of up to five functions; the caller numbers its
\* registrations and passes the number as the extra argument.
NextPriority ==
    \/ \E func \in CallablesOf(heap, ext, OnCalls), priority \in Priorities :
            PriorityRegister(func, priority)
    \/ \E func \in CallablesOf(heap, ext, OnCalls) : Unregister(func)
    \/ \E args \in {<<10>>} : Call(args)
    \/ InvokeReturn
    \/ ReturnFromCall

SpecPriority == Init /\ [][NextPriority]_vars

\* -------------------------------------------------------- odict.insert
MaxOdLen == 4       \* keys an odict holds at most

\* the keys and the values of an odict of its own
OdictKeys == {<<k>> : k \in 1..MaxOdLen}
OdictValues == {<<20>>}

\* the odicts of up to two keys, each key with the value 10
SmallOdicts ==
    {<<>>}
    \cup {<<[key |-> k, info |-> <<>>, extra |-> <<10>>]>> : k \in OdictKeys}
    \cup {<<[key |-> p[1], info |-> <<>>, extra |-> <<10>>],
            [key |-> p[2], info |-> <<>>, extra |-> <<10>>]>> :
              p \in {q \in OdictKeys \X OdictKeys : q[1] # q[2]}}

InitInsert ==
    /\ callbacks \in SmallOdicts
    /\ InitOthers

\* The outcome of od.insert(index, key, value): for the record the
\* arguments, the odict as it was before, which of the two ways of moving
\* the call took, and the ways taken so far.
InsertOver(index, key, value, before, path, paths) ==
    [op |-> "Insert", status |-> "ok", ret |-> FALSE, exc |-> NoneC,
     rounds |-> <<>>, index |-> index, key |-> key, value |-> value,
     before |-> before, path |-> path, paths |-> paths]

\* od.insert(index, key, value), od being the dict the registry keeps
OdictInsert(index, key, value) ==
    /\ Len(OdSet(callbacks, key, <<>>, value)) <= MaxOdLen
    /\ callbacks' = OdInsert(callbacks, index, key, <<>>, value)
    /\ LET n == Len(callbacks')
           path == IF (n - index) <= (n \div 2) THEN "tail" ELSE "head"
       IN result' = InsertOver(index, key, value, callbacks, path,
                               {path} \cup IF result.op = "Insert"
                                            THEN result.paths ELSE {})
    /\ UNCHANGED <<heap, ext, context, frames, log, others>>

\* An odict of any small content, with keys inserted at every position (one
\* past the end included) and present keys inserted again.
NextInsert ==
    \E index \in 0..MaxOdLen, key \in OdictKeys, value \in OdictValues :
        index <= Len(callbacks) + 1 /\ OdictInsert(index, key, value)

SpecInsert == InitInsert /\ [][NextInsert]_vars

\* A PriorityCallback of a function and of methods of instances that come
\* and go: entries are registered with each priority, registered again,
\* unregistered, and pruned by Call and Contains once their receiver died.
NextPriorityLive ==
    \/ \E a \in Addr : Alloc(a, "A")
    \/ \E a \in Addr : DropRef(a)
    \/ \E func \in CallablesOf(heap, ext, {"F1"}), priority \in Priorities :
            PriorityRegister(func, priority)
    \/ \E func \in CallablesOf(heap, ext, {"F1"}) : Unregister(func)
    \/ UnregisterAll
    \/ \E func \in CallablesOf(heap, ext, {"F1"}) : Contains(func)
    \/ \E args \in {<<10>>} : Call(args)
    \/ InvokeReturn
    \/ ReturnFromCall

SpecPriorityLive == Init /\ [][NextPriorityLive]_vars

\* A PriorityCallback of three functions that are registered and registered
\* again and never unregistered.
NextReRegister ==
    \/ \E func \in CallablesOf(heap, ext, {"OnCall1", "OnCall2", "OnCall3"}),
          priority \in Priorities : PriorityRegister(func, priority)
    \/ \E args \in {<<10>>} : Call(args)
    \/ InvokeReturn
    \/ ReturnFromCall

SpecReRegister == Init /\ [][NextReRegister]_vars

\* token.Unregister() on what the last Register handed back
\* (unregister5.Unregister() of testPriorityCallback): None has no
\* Unregister, an _UnregisterContext unregisters its key.
ReturnedUnregister ==
    /\ UNCHANGED others
    /\ Idle
    /\ result.op = "Register"
    /\ IF context = NoToken
       THEN /\ result' = Raised("ContextUnregister", AttributeError)
            /\ UNCHANGED <<callbacks, heap, context>>
       ELSE LET r == UnregisterByKey(callbacks, context.key)
            IN /\ callbacks' = r.callbacks
               /\ heap' = Reap(heap, ext, r.callbacks, frames)
               /\ result' = Done("ContextUnregister",
                                 IF r.raised THEN "raised" ELSE "ok", FALSE)
               /\ context' = [context EXCEPT !.regs = 0, !.unregs = @ + 1]
    /\ log' = <<>>
    /\ UNCHANGED <<ext, frames>>

\* testPriorityCallback: three of its functions, two priorities, and the
\* caller using what Register returned.
NextToken ==
    \/ \E func \in CallablesOf(heap, ext, {"OnCall1", "OnCall2", "OnCall5"}),
          priority \in {1, 2} : PriorityRegister(func, priority)
    \/ ReturnedUnregister
    \/ \E func \in CallablesOf(heap, ext, {"OnCall1", "OnCall2", "OnCall5"}) :
            Unregister(func)
    \/ \E args \in {<<10>>} : Call(args)
    \/ InvokeReturn
    \/ ReturnFromCall

SpecToken == Init /\ [][NextToken]_vars

\* A plain Callback of three functions, registered over and over; the
\* caller numbers its registrations and passes the number as the extra
\* argument. Nothing is unregistered and no receiver can die, so an entry
\* leaves the registry only when a later Register of its key replaces it.
OrderFunctions == {"F1", "F2", "OnCall1"}

NextOrder ==
    \/ /\ NextSerial(callbacks) <= MaxSerial
       /\ \E func \in CallablesOf(heap, ext, OrderFunctions) :
              Register(func, <<NextSerial(callbacks)>>, FALSE)
    \/ \E args \in {<<10>>} : Call(args)
    \/ InvokeReturn
    \/ ReturnFromCall

SpecOrder == Init /\ [][NextOrder]_vars

\* monkeypatch.setattr(Callback, "_GetKey", GetKey) of
\* testKeyReusedAfterDead, before the registry is made
PatchGetKey ==
    /\ Idle
    /\ ~patched
    /\ callbacks = <<>>
    /\ patched' = TRUE
    /\ log' = <<>>
    /\ result' = Done("none", "ok", FALSE)
    /\ UNCHANGED <<heap, ext, callbacks, context, frames, wrapper, single,
                   wrapped, aux>>

\* testKeyReusedAfterDead: two functions (AfterMethod, AfterMethodB), a
\* method as the class gives it (A.SetA) and as an instance gives it
\* (a.SetA), with the keys of the registry or with one key for all.
KeyReusedCallables == CallablesOf(heap, ext, {"F1", "F2", "M1"})

NextKeyReused ==
    \/ PatchGetKey
    \/ Alloc(1, "A")
    \/ DropRef(1)
    \/ \E func \in KeyReusedCallables : Register(func, <<>>, FALSE)
    \/ \E func \in KeyReusedCallables : Unregister(func)
    \/ \E func \in KeyReusedCallables : Contains(func)

SpecKeyReused == Init /\ [][NextKeyReused]_vars

\* Rounds whose callables change the registry or drop references; the
\* callables are two functions and the bound method of one instance.
NextDispatch ==
    \/ Alloc(1, "A")
    \/ DropRef(1)
    \/ \E func \in CallablesOf(heap, ext, Functions) : Register(func, <<>>, FALSE)
    \/ \E func \in CallablesOf(heap, ext, Functions) : Unregister(func)
    \/ \E args \in {<<10>>} : Call(args)
    \/ InvokeReturn
    \/ InvokeRaise
    \/ \E func \in CallablesOf(heap, Addr, Functions) : InvokeRegister(func, <<>>)
    \/ \E func \in CallablesOf(heap, Addr, Functions) : InvokeUnregister(func)
    \/ InvokeDropRef(1)
    \/ ReturnFromCall

SpecDispatch == Init /\ [][NextDispatch]_vars

\* Rounds whose callables call the registry again, change it or raise; the
\* callables are one function and the bound method of one instance.
NextNested ==
    \/ Alloc(1, "A")
    \/ DropRef(1)
    \/ \E func \in CallablesOf(heap, ext, {"F1"}), extra_args \in ExtraArgs :
            Register(func, extra_args, FALSE)
    \/ \E func \in CallablesOf(heap, ext, {"F1"}) : Unregister(func)
    \/ \E args \in {<<10>>} : Call(args)
    \/ InvokeReturn
    \/ InvokeRaise
    \/ \E func \in CallablesOf(heap, Addr, {"F1"}) : InvokeRegister(func, <<>>)
    \/ \E func \in CallablesOf(heap, Addr, {"F1"}) : InvokeUnregister(func)
    \/ \E args \in {<<10>>} : InvokeCall(args)
    \/ ReturnFromCall

SpecNested == Init /\ [][NextNested]_vars

\* The caller keeps the context Register returned and unregisters through
\* it or through the registry, any number of times and in any order.
NextContext ==
    \/ \E cls \in Classes : Alloc(1, cls)
    \/ DropRef(1)
    \/ \E func \in CallablesOf(heap, ext, Functions) : Register(func, <<>>, TRUE)
    \/ \E func \in CallablesOf(heap, ext, Functions) : Unregister(func)
    \/ ContextUnregister
    \/ UnregisterAll
    \/ \E args \in {<<10>>} : Call(args)
    \/ InvokeReturn
    \/ InvokeRaise
    \/ ReturnFromCall

SpecContext == Init /\ [][NextContext]_vars

TypeOK ==
    /\ ext \subseteq Addr
    /\ \A a \in ext : heap[a].live

\* ================================================================ claims
\* The callable Register stored as entry e, read back from its info.
RegisteredCallable(e) ==
    LET obj == e.info[1]
        fn == e.info[2]
    IN IF obj = NoRef THEN fn
       ELSE IF fn = NoneC THEN CallableObj(obj)
       ELSE BoundMethod(obj, fn.name)

\* how many entries the registry holds for func
EntriesFor(cbs, func) ==
    Cardinality({i \in 1..Len(cbs) : RegisteredCallable(cbs[i]) = func})

\* how often func was invoked by the activation at depth d that began when
\* the log held base events
TimesInvoked(func, d, base) ==
    Cardinality({i \in (base + 1)..Len(log) : log[i].depth = d /\ log[i].func = func})

RoundOver == result.op = "Call" /\ result.status = "ok"

\* C1: after Register(f) ran n >= 1 times with no unregistration in between
\* and f alive, the registry holds exactly one entry for f, len counts it
\* once, and a Call that completes has invoked f exactly once.
C1_RegisterIsIdempotent ==
    (context.regs >= 1 /\ FuncAlive(heap, context.func)) =>
        /\ EntriesFor(callbacks, context.func) = 1
        /\ Cardinality({i \in 1..Len(callbacks) :
                            callbacks[i].key = GetKey(heap, context.func)}) = 1
        /\ RoundOver => TimesInvoked(context.func, 1, 0) = 1

C1_Witness ==
    /\ context.regs >= 2
    /\ FuncAlive(heap, context.func)
    /\ context.func.kind = "bound"
    /\ RoundOver
    /\ Len(callbacks) >= 2
    /\ TimesInvoked(context.func, 1, 0) = 1

\* C10: for the context t returned by Register(f), t.Unregister() and
\* Unregister(f) leave the registry in the same state, neither raises however
\* often and in whatever order they ran before, and once one of them has run
\* the registry has no entry for f.
C10_ContextUnregisterIsUnregister ==
    (context # NoToken /\ FuncAlive(heap, context.func)) =>
        LET byContext == UnregisterByKey(callbacks, context.key)
            byFunc == UnregisterFunc(heap, callbacks, context.func)
        IN /\ byContext.callbacks = byFunc.callbacks
           /\ ~byContext.raised
           /\ ~byFunc.raised
           /\ EntriesFor(byContext.callbacks, context.func) = 0
           /\ context.unregs >= 1 => EntriesFor(callbacks, context.func) = 0
           /\ result.op \in {"Unregister", "ContextUnregister"} => result.status = "ok"

C10_Witness ==
    /\ context.unregs >= 2
    /\ FuncAlive(heap, context.func)
    /\ context.func.kind = "bound"
    /\ result = Done("ContextUnregister", "ok", FALSE)
    /\ callbacks # <<>>

\* The activations to judge: those running, or those the last call ended.
Rounds == IF frames # <<>> THEN frames ELSE result.rounds

\* The log positions of the invocations made by the activation at depth d
\* that began when the log held base events, oldest first.
RECURSIVE OwnFrom(_, _, _)
OwnFrom(i, d, stop) ==
    IF i > Len(log) \/ i > stop THEN <<>>
    ELSE IF log[i].depth = d THEN <<log[i]>> \o OwnFrom(i + 1, d, stop)
    ELSE OwnFrom(i + 1, d, stop)

\* An activation's own invocations end where the next activation of the same
\* depth begins (a later nested round of the same outer round).
OwnEvents(rs, d) ==
    OwnFrom(rs[d].base + 1, d, Len(log))

\* What the activation would have invoked so far had it walked, in order, the
\* entries the registry held when it began.
PlannedEvents(r, d) ==
    [i \in 1..(r.idx - 1) |->
        [func |-> RegisteredCallable(r.start[i]),
         args |-> r.start[i].extra \o r.args,
         depth |-> d]]

Stripped(evs) ==
    [i \in 1..Len(evs) |-> [func |-> evs[i].func, args |-> evs[i].args,
                            depth |-> evs[i].depth]]

\* C2: the callables one Call invokes, and their order, are those registered
\* (receiver alive) when the round began, whatever the invoked callables
\* register or unregister meanwhile; a round that begins takes the registry as
\* the earlier rounds left it.
C2_RoundInvokesItsSnapshot ==
    /\ \A d \in 1..Len(Rounds) :
          /\ Stripped(OwnEvents(Rounds, d)) = PlannedEvents(Rounds[d], d)
          /\ Rounds[d].idx <= Len(Rounds[d].start) + 1
    /\ RoundOver => \A d \in 1..Len(Rounds) : Rounds[d].idx = Len(Rounds[d].start) + 1
    /\ (frames # <<>> /\ Top.idx = 1) => Top.start = callbacks

\* a round of two is over; its first callable unregistered the second, which
\* was invoked all the same and registered a callable the round did not have;
\* the registry holds that one and not the second
C2_Witness ==
    /\ RoundOver
    /\ Len(result.rounds) = 1
    /\ Len(result.rounds[1].start) = 2
    /\ Len(log) = 2
    /\ log[1].did = "unregister"
    /\ log[2].did = "register"
    /\ log[2].func = RegisteredCallable(result.rounds[1].start[2])
    /\ ~OdHas(callbacks, result.rounds[1].start[2].key)
    /\ \E i \in 1..Len(callbacks) : ~OdHas(result.rounds[1].start, callbacks[i].key)

\* how often the activation at depth d of rs invoked func
TimesInvokedBy(rs, d, func) ==
    LET own == OwnEvents(rs, d)
    IN Cardinality({i \in 1..Len(own) : own[i].func = func})

\* C3: if an invoked callable raises, that exception reaches the caller of
\* Call, nothing is invoked after it, and in every activation it leaves the
\* callables before the point reached were invoked exactly once, those after
\* it not at all.
C3_RaiseEndsTheRound ==
    /\ \A i \in 1..Len(log) :
          log[i].did = "raise" =>
              /\ i = Len(log)
              /\ frames = <<>>
              /\ result.op = "Call" /\ result.status = "raised"
              /\ result.exc = log[i].func
    /\ result.status = "raised" =>
          /\ log # <<>> /\ log[Len(log)].did = "raise"
          /\ \A d \in 1..Len(result.rounds) :
                LET r == result.rounds[d]
                IN \A k \in 1..Len(r.start) :
                      TimesInvokedBy(result.rounds, d, RegisteredCallable(r.start[k]))
                          = IF k <= r.idx - 1 THEN 1 ELSE 0

\* the second callable of a round of two called the registry again, and in
\* that nested round the first callable returned and the second one raised
C3_Witness ==
    /\ result.status = "raised"
    /\ Len(result.rounds) = 2
    /\ Len(result.rounds[1].start) = 2 /\ result.rounds[1].idx = 2
    /\ Len(result.rounds[2].start) = 2 /\ result.rounds[2].idx = 2
    /\ Len(log) = 2
    /\ log[1].did = "call" /\ log[2].did = "raise"

\* C4: a Call made after the receiver of a registered bound method died
\* deletes that entry, does not invoke the method, raises nothing of its own,
\* and leaves in the registry only entries whose receiver is alive.
C4_DeadReceiverIsPruned ==
    /\ \A d \in 1..Len(Rounds) :
          \A i \in 1..Len(Rounds[d].deleted) :
              LET e == Rounds[d].deleted[i]
              IN /\ ~OdHas(callbacks, e.key)
                 /\ \A j \in 1..Len(log) : log[j].func # RegisteredCallable(e)
    /\ (frames # <<>> \/ result.op = "Call") =>
          /\ \A i \in 1..Len(callbacks) : ~EntryDead(heap, callbacks[i])
          /\ \A j \in 1..Len(log) : FuncAlive(heap, log[j].func)
    /\ result.status = "raised" => log # <<>> /\ log[Len(log)].did = "raise"

\* a Call found the bound method of a dead receiver as the only entry
C4_Witness ==
    /\ RoundOver
    /\ Len(result.rounds) = 1
    /\ Len(result.rounds[1].deleted) = 1
    /\ RegisteredCallable(result.rounds[1].deleted[1]).kind = "bound"
    /\ callbacks = <<>>
    /\ log = <<>>

\* C5: the registry keeps no receiver of a bound method and no callable
\* object without the keep-strong marker alive: such an instance is alive only
\* while the caller or a running round holds it; a callable object with the
\* marker is alive as long as its entry is stored.
HeldByFrames == UNION {StrongOfFrame(frames[i]) : i \in 1..Len(frames)}

IsCurrent(r) == r.addr \in Addr /\ heap[r.addr].gen = r.gen

C5_WeakUnlessMarked ==
    \A i \in 1..Len(callbacks) :
        LET c == RegisteredCallable(callbacks[i])
        IN (c.kind \in {"bound", "obj"} /\ IsCurrent(c.ref)) =>
              IF c.kind = "obj" /\ heap[c.ref.addr].cls = "KObj"
              THEN heap[c.ref.addr].live
              ELSE heap[c.ref.addr].live => c.ref.addr \in ext \cup HeldByFrames

\* the caller holds nothing; the entry of a bound method and the entry of an
\* unmarked callable object are stored with their instance dead, or one of them
\* and the entry of a marked callable object that is alive
C5_Witness ==
    /\ ext = {}
    /\ frames = <<>>
    /\ \E i, j \in 1..Len(callbacks) :
          LET c == RegisteredCallable(callbacks[i])
              k == RegisteredCallable(callbacks[j])
          IN /\ c.kind = "bound" /\ ~Resolves(heap, c.ref)
             /\ k.kind = "obj" /\ Resolves(heap, k.ref)
             /\ heap[k.ref.addr].cls = "KObj"

\* the number the caller gave the registration of an entry
SerialOf(e) == e.extra[1]

ComesBefore(e1, e2) ==
    \/ PriorityOf(e1) < PriorityOf(e2)
    \/ PriorityOf(e1) = PriorityOf(e2) /\ SerialOf(e1) < SerialOf(e2)

\* C6: a PriorityCallback invokes its callables by non-decreasing priority
\* number, those of equal priority in the order they were registered.
C6_PriorityThenRegistrationOrder ==
    /\ \A i, j \in 1..Len(callbacks) : i < j => ComesBefore(callbacks[i], callbacks[j])
    /\ \A d \in 1..Len(Rounds) :
          LET r == Rounds[d]
              own == OwnEvents(Rounds, d)
          IN /\ \A i, j \in 1..Len(r.start) : i < j => ComesBefore(r.start[i], r.start[j])
             /\ Len(own) = r.idx - 1
             /\ \A k \in 1..Len(own) :
                   /\ own[k].func = RegisteredCallable(r.start[k])
                   /\ own[k].args[1] = SerialOf(r.start[k])
    /\ RoundOver => \A d \in 1..Len(Rounds) : Rounds[d].idx = Len(Rounds[d].start) + 1

\* OnCall1..OnCall5 were registered in that order with the priorities
\* 2, 2, 1, 3, 2 and a round invoked OnCall3, OnCall1, OnCall2, OnCall5, OnCall4
C6_Witness ==
    /\ RoundOver
    /\ Len(log) = 5
    /\ [k \in 1..5 |-> log[k].func.name]
          = <<"OnCall3", "OnCall1", "OnCall2", "OnCall5", "OnCall4">>
    /\ [k \in 1..5 |-> PriorityOf(callbacks[k])] = <<1, 2, 2, 2, 3>>
    /\ [k \in 1..5 |-> SerialOf(callbacks[k])] = <<3, 1, 2, 5, 4>>

\* the callables a list of events names, in order
FuncsOf(evs) == [i \in 1..Len(evs) |-> evs[i].func]

\* the callables a hook registry holds, in order
HooksOf(cbs) == [i \in 1..Len(cbs) |-> RegisteredCallable(cbs[i])]

\* C7: a call of a method with before and after hooks that returns has invoked
\* the before hooks, then the original method, then the after hooks, each with
\* the arguments of the call, and returns what the original method returned.
C7_BeforeOriginalAfter ==
    (result.op = "WrappedCall" /\ result.status = "ok") =>
        LET nb == Len(wrapper.before)
            na == Len(wrapper.after)
        IN /\ Len(log) = nb + 1 + na
           /\ FuncsOf(SubSeq(log, 1, nb)) = HooksOf(wrapper.before)
           /\ log[nb + 1].func = wrapper.method /\ log[nb + 1].did = "original"
           /\ FuncsOf(SubSeq(log, nb + 2, nb + 1 + na)) = HooksOf(wrapper.after)
           /\ \A i \in 1..Len(log) : log[i].args = wrapper.args
           /\ wrapper.ret = wrapper.m_ret
           /\ wrapper.ret \in ReturnValues

\* Before(m, F1) and After(m, F2); a call m(10) invoked F1, m and F2 and
\* returned what m returned, which is not what the last hook returned
C7_Witness ==
    /\ result.op = "WrappedCall" /\ result.status = "ok"
    /\ HooksOf(wrapper.before) = <<FreeFunc("F1")>>
    /\ HooksOf(wrapper.after) = <<FreeFunc("F2")>>
    /\ FuncsOf(log) = <<FreeFunc("F1"), wrapper.method, FreeFunc("F2")>>
    /\ wrapper.args = <<10>>
    /\ wrapper.ret = wrapper.m_ret
    /\ wrapper.hook_ret # wrapper.m_ret

\* the arguments a callable registered with a SingleCallCallback is to get:
\* the parameter, when there is one, and the arguments of the call
FrozenArgs ==
    IF single.has_param THEN <<ObjectArg(single.param)>> \o single.args
    ELSE single.args

\* callback.Register(fn) on a callback that was called: fn is invoked once
\* with the frozen arguments if it had no entry, and nothing is invoked if it
\* had one
ReplayedIfNew(fn, raises) ==
    (single.done /\ ~ParamDead(heap, single) /\ SingleRegister(fn, raises)) =>
        IF EntriesFor(callbacks, fn) = 0
        THEN /\ Len(log') = Len(log) + 1
             /\ SubSeq(log', 1, Len(log)) = log
             /\ log'[Len(log')].func = fn
             /\ log'[Len(log')].args = FrozenArgs
             /\ EntriesFor(callbacks', fn) = 1
        ELSE /\ log' = log
             /\ EntriesFor(callbacks', fn) = 1

\* no callable was given the arguments of the last call twice
NoDoubleDelivery ==
    \A i, j \in 1..Len(log) : i < j => log[i].func # log[j].func

\* C8 as stated: after the call, Register(fn) invokes fn once with the frozen
\* arguments if fn is not registered and nothing if it is, and no callable gets
\* the frozen arguments of one call twice.
C8_ReplayNeverTwice ==
    [][/\ \A fn \in CallablesOf(heap, ext, Functions), raises \in BOOLEAN :
              ReplayedIfNew(fn, raises)
       /\ NoDoubleDelivery']_vars

\* C8, amended: after the call (and before AllowCallingAgain), Register(fn)
\* invokes fn once with the frozen arguments if fn is not registered and
\* nothing if it is; a callable gets the frozen arguments of one call a second
\* time only by being registered while it has no entry.
C8_ReplayIfNotRegistered ==
    [][/\ \A fn \in CallablesOf(heap, ext, Functions), raises \in BOOLEAN :
              ReplayedIfNew(fn, raises)
       /\ \A fn \in CallablesOf(heap, ext, Functions) :
              (/\ Cardinality({i \in 1..Len(log') : log'[i].func = fn})
                     > Cardinality({i \in 1..Len(log) : log[i].func = fn})
               /\ \E i \in 1..Len(log) : log[i].func = fn)
              => (frames = <<>> /\ EntriesFor(callbacks, fn) = 0)]_vars

\* the callback with a parameter was called with 10 and gave it to the one
\* function registered; the bound method registered afterwards got the
\* parameter and 10 at once
C8_Witness ==
    /\ single.done /\ single.has_param /\ single.args = <<10>>
    /\ Len(log) = 2
    /\ log[1].func = FreeFunc("F1") /\ log[1].depth = 1
    /\ log[2].func.kind = "bound" /\ log[2].depth = 0
    /\ log[2].args = <<ObjectArg(single.param), 10>>
    /\ Len(callbacks) = 2

\* C9: a call of a SingleCallCallback that was called, with no
\* AllowCallingAgain since, raises, invokes nothing and leaves the frozen
\* arguments as they are.
C9_SecondCallRaises ==
    [][\A args \in CallArgs :
          (single.done /\ SingleCall(args)) =>
              /\ result'.status = "raised"
              /\ result'.exc = AssertionError
              /\ log' = log
              /\ frames' = <<>>
              /\ single'.args = single.args
              /\ single'.done]_vars

\* the callback was called with 10 and a second call has raised; the one
\* delivery of the first call is all there is
C9_Witness ==
    /\ result = Raised("SingleCall", AssertionError)
    /\ single.done /\ single.args = <<10>>
    /\ Len(log) = 1 /\ log[1].args = <<10>>
    /\ callbacks # <<>>

\* C11: PriorityCallback.Register(func, priority=p) returns an unregister
\* token; the token's Unregister removes exactly that entry, without an
\* error, and leaves the remaining entries in their previous relative order.
\* After a Register the caller holds a token for an entry of the registry,
\* and using the token never fails.
C11_RegisterReturnsToken ==
    /\ result.op = "Register" =>
          /\ context # NoToken
          /\ OdHas(callbacks, context.key)
    /\ result.op = "ContextUnregister" =>
          /\ result.status = "ok"
          /\ ~OdHas(callbacks, context.key)

\* the keys of a registry in its iteration order
KeyOrder(cbs) == [i \in 1..Len(cbs) |-> cbs[i].key]

\* C12: Register(f) on a plain Callback, when an entry already exists under
\* f's key, replaces that entry (one entry per key, holding the new extra
\* arguments) and moves it to the end of the dispatch order; the other
\* entries keep their order.
C12_ReRegisterMovesToEnd ==
    [][\A func \in CallablesOf(heap, ext, OrderFunctions) :
          LET key == GetKey(heap, func)
              extra_args == <<NextSerial(callbacks)>>
          IN (Register(func, extra_args, FALSE) /\ OdHas(callbacks, key)) =>
                /\ Len(callbacks') = Len(callbacks)
                /\ KeyOrder(callbacks') = KeyOrder(OdDel(callbacks, key)) \o <<key>>
                /\ callbacks'[Len(callbacks')].extra = extra_args
                /\ \A k \in {callbacks[i].key : i \in 1..Len(callbacks)} \ {key} :
                      OdGet(callbacks', k) = OdGet(callbacks, k)]_vars

\* F1 was registered first, then F2, then F1 again: the first registration
\* (number 1) is gone, and F1 stands behind F2 with its latest number.
C12_Witness ==
    /\ Idle
    /\ KeyOrder(callbacks) = <<GetKey(heap, FreeFunc("F2")),
                             GetKey(heap, FreeFunc("F1"))>>
    /\ callbacks[1].extra = <<2>>
    /\ callbacks[2].extra = <<3>>

\* C13, as stated: in a plain Callback, re-registering a callable whose key
\* is already present does not change its position in the dispatch order.
C13_ReRegisterKeepsPosition ==
    [][\A func \in CallablesOf(heap, ext, OrderFunctions) :
          (/\ Register(func, <<NextSerial(callbacks)>>, FALSE)
           /\ OdHas(callbacks, GetKey(heap, func))) =>
                KeyOrder(callbacks') = KeyOrder(callbacks)]_vars

\* C13, amended: in a plain Callback, re-registering a callable whose key is
\* already present moves it to the end of the dispatch order, so callables
\* are dispatched in the order of their latest registration: the registry
\* holds each key once, in the order of the numbers of the registrations
\* that are in force, and every round invokes its callables in that order.
C13_LatestRegistrationOrder ==
    /\ \A i, j \in 1..Len(callbacks) :
          i < j => /\ SerialOf(callbacks[i]) < SerialOf(callbacks[j])
                   /\ callbacks[i].key # callbacks[j].key
    /\ \A d \in 1..Len(Rounds) :
          LET r == Rounds[d]
              own == OwnEvents(Rounds, d)
          IN /\ \A i, j \in 1..Len(r.start) :
                   i < j => SerialOf(r.start[i]) < SerialOf(r.start[j])
             /\ Len(own) = r.idx - 1
             /\ \A k \in 1..Len(own) :
                   /\ own[k].func = RegisteredCallable(r.start[k])
                   /\ own[k].args = <<SerialOf(r.start[k])>> \o r.args
    /\ RoundOver => Len(log) = Len(callbacks)

\* F1, F2 and F1 again were registered, and the round invoked F2 (with its
\* number 2) before F1 (with the number 3 of its second registration)
C13_Witness ==
    /\ RoundOver
    /\ Len(log) = 2
    /\ log[1].func = FreeFunc("F2") /\ log[1].args = <<2, 10>>
    /\ log[2].func = FreeFunc("F1") /\ log[2].args = <<3, 10>>

\* The invocation at place i of a round unregistered the entry the round
\* had at the later place k.
UnregistersLater(r, own, i, k) ==
    /\ i <= Len(own) /\ i < k /\ k <= Len(r.start)
    /\ own[i].did = "unregister"
    /\ own[i].on = RegisteredCallable(r.start[k])

\* C14, as stated: if a callable invoked during a Call unregisters an entry
\* that comes later in the same round, that later entry is not invoked in
\* that round.
C14_LaterEntrySkipped ==
    \A d \in 1..Len(Rounds) :
        LET r == Rounds[d]
            own == OwnEvents(Rounds, d)
        IN \A i, k \in 1..Len(r.start) :
              UnregistersLater(r, own, i, k) =>
                  \A j \in 1..Len(own) :
                      j > i => own[j].func # RegisteredCallable(r.start[k])

\* C14, amended: if a callable invoked during a Call unregisters an entry
\* that comes later in the same round, that later entry is still invoked in
\* that round, at its place and once.
C14_LaterEntryStillInvoked ==
    \A d \in 1..Len(Rounds) :
        LET r == Rounds[d]
            own == OwnEvents(Rounds, d)
        IN \A i, k \in 1..Len(r.start) :
              UnregistersLater(r, own, i, k) =>
                  /\ Len(own) >= k => own[k].func = RegisteredCallable(r.start[k])
                  /\ RoundOver =>
                        /\ Len(own) >= k
                        /\ TimesInvokedBy(Rounds, d, RegisteredCallable(r.start[k])) = 1

\* a round of F1, F2 and a bound method is over: F1 unregistered the bound
\* method, F2 and then the bound method were invoked all the same, and the
\* registry no longer holds the bound method
C14_Witness ==
    /\ RoundOver
    /\ Len(result.rounds) = 1
    /\ Len(result.rounds[1].start) = 3
    /\ Len(log) = 3
    /\ log[1].did = "unregister"
    /\ log[1].on = RegisteredCallable(result.rounds[1].start[3])
    /\ log[2].did = "return"
    /\ log[3].func = log[1].on
    /\ log[3].func.kind = "bound"
    /\ ~OdHas(callbacks, result.rounds[1].start[3].key)

\* The entry the registry held under func's key when Contains(func) ran.
AskedEntry == OdGet(result.before, GetKey(heap, result.func))

HadAskedKey ==
    /\ result.op = "Contains"
    /\ OdHas(result.before, GetKey(heap, result.func))

\* C15: Contains(f), when the entry stored under f's key has a dead
\* receiver, removes that entry and nothing else (len decreases by one) and
\* returns false.
C15_ContainsPrunesDeadEntry ==
    (HadAskedKey /\ EntryDead(heap, AskedEntry)) =>
        /\ result.ret = FALSE
        /\ callbacks = OdDel(result.before, AskedEntry.key)
        /\ Len(callbacks) = Len(result.before) - 1

\* a.M1 was registered after F1, a died and a new instance of the class got
\* a's address: Contains(M1 of the new instance) found a's entry under the
\* same key, removed it and returned false
C15_Witness ==
    /\ HadAskedKey /\ EntryDead(heap, AskedEntry)
    /\ result.func.kind = "bound"
    /\ result.func.ref.addr = InfoAt(AskedEntry.info, INFO_POS_FUNC_OBJ).addr
    /\ result.func.ref.gen > InfoAt(AskedEntry.info, INFO_POS_FUNC_OBJ).gen
    /\ Len(result.before) = 2
    /\ Len(callbacks) = 1
    /\ result.ret = FALSE

\* The entry found under the asked key is alive and was stored for another
\* callable than the one asked about.
AskedKeyReused ==
    /\ HadAskedKey
    /\ ~EntryDead(heap, AskedEntry)
    /\ RegisteredCallable(AskedEntry) # result.func

\* the callable asked about is a bound method of the function the entry holds
AskedBoundOfEntry ==
    /\ result.func.kind = "bound"
    /\ RegisteredCallable(AskedEntry) = FreeFunc(result.func.name)

\* C16, as stated: Contains(f) returns true only if an entry exists under
\* f's key and its stored weak slot resolves to a callable equal to f; when
\* the key matches an entry stored for a different, live callable it returns
\* false and leaves the registry unchanged.
C16_ContainsOnlyTheSame ==
    result.op = "Contains" =>
        /\ result.ret = TRUE =>
              /\ HadAskedKey
              /\ ~EntryDead(heap, AskedEntry)
              /\ RegisteredCallable(AskedEntry) = result.func
        /\ AskedKeyReused => result.ret = FALSE /\ callbacks = result.before

\* C16, amended: Contains(f) returns true only if an entry exists under f's
\* key and its stored weak slot resolves to a callable equal to f, or the
\* entry holds the function that f is a bound method of; when the key
\* matches an entry stored for any other live callable it returns false and
\* leaves the registry unchanged.
C16_ContainsTheSameOrItsFunction ==
    result.op = "Contains" =>
        /\ result.ret = TRUE =>
              /\ HadAskedKey
              /\ ~EntryDead(heap, AskedEntry)
              /\ \/ RegisteredCallable(AskedEntry) = result.func
                 \/ AskedBoundOfEntry
        /\ (AskedKeyReused /\ ~AskedBoundOfEntry) =>
              result.ret = FALSE /\ callbacks = result.before

\* with one key for all, the registry holds F2 and is asked about F1: the
\* answer is false and F2 stays registered
C16_Witness ==
    /\ patched
    /\ AskedKeyReused
    /\ result.func = FreeFunc("F1")
    /\ RegisteredCallable(AskedEntry) = FreeFunc("F2")
    /\ result.ret = FALSE
    /\ callbacks = result.before
    /\ Len(callbacks) = 1

\* C17: Unregister(f) raises no error; when no entry is held under f's key
\* it leaves the entries and their order unchanged, and when one is held it
\* removes that entry only and keeps the relative order of the others.
C17_UnregisterRemovesOnlyItsEntry ==
    [][\A func \in CallablesOf(heap, ext, Functions) :
          Unregister(func) =>
              LET key == GetKey(heap, func)
              IN /\ result'.status = "ok"
                 /\ ~OdHas(callbacks, key) => callbacks' = callbacks
                 /\ OdHas(callbacks, key) => Len(callbacks') = Len(callbacks) - 1
                 /\ KeyOrder(callbacks')
                       = SelectSeq(KeyOrder(callbacks), LAMBDA k : k # key)
                 /\ \A i \in 1..Len(callbacks') :
                       callbacks'[i] = OdGet(callbacks, callbacks'[i].key)]_vars

\* three callables were registered and the last of them was unregistered
\* twice in a row: the second Unregister found no entry, raised nothing and
\* left the two others in place
C17_Witness ==
    /\ result.op = "Unregister" /\ result.status = "ok"
    /\ context.unregs = 2 /\ context.regs = 0
    /\ ~OdHas(callbacks, context.key)
    /\ Len(callbacks) = 2
    /\ callbacks[2].info[1] # NoRef

\* how often the call logged last ran func as a hook of kind did ("before"
\* or "after") of wrapper k
TimesRun(k, did, func) ==
    Cardinality({j \in 1..Len(log) :
                    log[j].depth = k /\ log[j].did = did /\ log[j].func = func})

\* how often it ran func as a hook of kind did of any wrapper made for the
\* receiver self (0: for the class)
TimesRunFor(self, did, func) ==
    Cardinality({j \in 1..Len(log) :
                    /\ log[j].did = did /\ log[j].func = func
                    /\ wrapped.made[log[j].depth].self = self})

\* the wrapper a call of instance.foo enters first (0 if none)
EnteredBy(inst) ==
    IF wrapped.on_inst[inst] # 0 THEN wrapped.on_inst[inst] ELSE wrapped.on_class

\* every hook of wrapper k ran exactly once as a hook of k
RanItsHooksOnce(k) ==
    /\ \A j \in 1..Len(wrapped.made[k].before) :
          TimesRun(k, "before", RegisteredCallable(wrapped.made[k].before[j])) = 1
    /\ \A j \in 1..Len(wrapped.made[k].after) :
          TimesRun(k, "after", RegisteredCallable(wrapped.made[k].after[j])) = 1

\* C18: wrapping a method that is already wrapped at the same level (the
\* instance's own wrapper, or the re-export on the class) returns the
\* existing wrapper: the class and each instance have at most one wrapper,
\* and after any number of Before and After calls a call of the method runs
\* the original exactly once, every before hook and every after hook of the
\* wrapper it enters exactly once, and no hook twice at the same level.
C18_RewrapReturnsTheWrapper ==
    /\ \A k1, k2 \in 1..Len(wrapped.made) :
          k1 # k2 => wrapped.made[k1].self # wrapped.made[k2].self
    /\ result.op = "MethodCall" =>
          /\ Cardinality({j \in 1..Len(log) : log[j].did = "original"}) = 1
          /\ EnteredBy(result.inst) # 0 => RanItsHooksOnce(EnteredBy(result.inst))
          /\ \A self \in {0} \cup Instances, did \in {"before", "after"},
                f \in Functions : TimesRunFor(self, did, FreeFunc(f)) <= 1

\* F1 was put before and F2 and then F1 after the method through the first
\* instance (three calls, one wrapper); a call on that instance ran F1, the
\* original, F2 and F1
C18_Witness ==
    /\ result.op = "MethodCall" /\ result.inst = 1
    /\ wrapped.on_class = 0
    /\ Len(wrapped.made) = 1
    /\ Len(wrapped.made[1].before) = 1
    /\ Len(wrapped.made[1].after) = 2
    /\ [j \in 1..Len(log) |-> log[j].func.name] = <<"F1", "foo", "F2", "F1">>
    /\ [j \in 1..Len(log) |-> log[j].did]
          = <<"before", "original", "after", "after">>

\* C19: when the method is first hooked through the class and afterwards
\* through an instance, that instance gets a wrapper of its own around the
\* class-level method, and a call on it runs the class-level hooks and the
\* instance-level hooks, the class-level after hooks before the
\* instance-level ones; an instance without a wrapper of its own runs the
\* class-level hooks only.
C19_ClassThenInstance ==
    /\ \A inst \in Instances :
          LET c == wrapped.on_class
              k == wrapped.on_inst[inst]
          IN (c # 0 /\ k > c) =>
                /\ wrapped.made[k].self = inst
                /\ wrapped.made[k].orig = c
    /\ result.op = "MethodCall" =>
          LET c == wrapped.on_class
              k == wrapped.on_inst[result.inst]
          IN /\ (c # 0 /\ k > c) =>
                   /\ RanItsHooksOnce(c)
                   /\ RanItsHooksOnce(k)
                   /\ \A j1, j2 \in 1..Len(log) :
                         (/\ log[j1].did = "after" /\ log[j1].depth = c
                          /\ log[j2].did = "after" /\ log[j2].depth = k) => j1 < j2
             /\ (c # 0 /\ k = 0) =>
                   /\ RanItsHooksOnce(c)
                   /\ \A j \in 1..Len(log) : log[j].depth \in {0, c}

\* After(C.foo, F1), then After(a.foo, F2): a.foo(10) ran the original with
\* (a, 10), the class-level F1 with (a, 10) and then a's own F2 with (10);
\* the other instance has no wrapper of its own
C19_Witness ==
    /\ result.op = "MethodCall" /\ result.inst = 1
    /\ wrapped.on_class = 1 /\ wrapped.on_inst[1] = 2 /\ wrapped.on_inst[2] = 0
    /\ [j \in 1..Len(log) |-> log[j].func.name] = <<"foo", "F1", "F2">>
    /\ [j \in 1..Len(log) |-> log[j].args] = <<<<1, 10>>, <<1, 10>>, <<10>>>>
    /\ [j \in 1..Len(log) |-> log[j].depth] = <<0, 1, 2>>

\* the receiver of the wrapped method is dead
ReceiverDead == wrapper.installed /\ ~Resolves(heap, wrapper.method.ref)

\* C20: calling a wrapper whose original method's receiver has died raises a
\* reference error; the original method is not called and no after hook is
\* invoked. While such a call runs it is still at its before hooks, and when
\* it is over it ended with the ReferenceError, having invoked the before
\* hooks and nothing else, or with the exception of a before hook.
C20_DeadReceiverRaises ==
    (result.op = "WrappedCall" /\ ReceiverDead) =>
        /\ wrapper.pc # "after"
        /\ \A j \in 1..Len(log) : log[j].did # "original"
        /\ wrapper.pc = "idle" =>
              /\ result.status = "raised"
              /\ \/ /\ result.exc = ReferenceError
                    /\ FuncsOf(log) = HooksOf(wrapper.before)
                    /\ \A j \in 1..Len(log) : log[j].did = "return"
                 \/ /\ log # <<>>
                    /\ log[Len(log)].did = "raise"
                    /\ result.exc = log[Len(log)].func
                    /\ Len(log) <= Len(wrapper.before)

\* F1 before and F2 after the method of an instance that then died: the
\* call ran F1 and raised ReferenceError, and neither the method nor F2 ran
C20_Witness ==
    /\ result.op = "WrappedCall" /\ result.status = "raised"
    /\ result.exc = ReferenceError
    /\ ReceiverDead
    /\ HooksOf(wrapper.before) = <<FreeFunc("F1")>>
    /\ HooksOf(wrapper.after) = <<FreeFunc("F2")>>
    /\ FuncsOf(log) = <<FreeFunc("F1")>>

\* C21: a hook registered with sender_as_parameter=True is never called with
\* None in place of the sender: when the sender has died before the wrapper
\* is called, the call raises ReferenceError and the hook's callback is not
\* invoked.
SenderEvents == {i \in 1..Len(log) : "sender" \in DOMAIN log[i]}

C21_DeadSenderNeverPassed ==
    /\ \A i \in SenderEvents :
          /\ log[i].args[1] # 0
          /\ log[i].args[1] = ObjectArg(log[i].sender)
    /\ (/\ result.op = "WrappedCall" /\ wrapper.pc = "idle" /\ ReceiverDead
        /\ \A j \in 1..Len(log) : log[j].did # "raise")
          => result.exc = ReferenceError

\* the callable a hook entry invokes: the callback itself, also when it was
\* registered inside a _CallbackWrapper
HookOf(e) ==
    IF RegisteredCallable(e).kind = "cbwrapper"
    THEN RegisteredCallable(e).inner
    ELSE RegisteredCallable(e)

\* the hooks a registry holds whose callable is alive, in order
LiveHooks(h, cbs) ==
    LET alive == SelectSeq(cbs, LAMBDA e : ~EntryDead(h, e))
    IN [i \in 1..Len(alive) |-> HookOf(alive[i])]

InSeq(x, s) == \E i \in 1..Len(s) : s[i] = x

\* the callables the next call of the registry would invoke
WouldInvoke(h, cbs) ==
    LET to_call == BuildToCall(h, cbs).to_call
    IN {IF to_call[i].func.kind = "cbwrapper"
        THEN to_call[i].func.inner ELSE to_call[i].func : i \in 1..Len(to_call)}

\* C22: Remove(method, callback) returns true exactly when callback was
\* registered in the before or the after registry of the method's wrapper; it
\* is then gone from both, a later call would not invoke it, and the other
\* hooks stay in their order. It returns false and leaves the hooks and the
\* wrapper as they were when the method has no wrapper or callback is not
\* registered.
C22_RemoveReturnsWhetherRegistered ==
    result.op = "Remove" =>
        LET cb == result.callback
            w0 == result.before
            wasWrapped == w0.installed /\ w0.method = TheMethod
            b0 == LiveHooks(heap, w0.before)
            a0 == LiveHooks(heap, w0.after)
            registered == wasWrapped /\ (InSeq(cb, b0) \/ InSeq(cb, a0))
            Without(s) == SelectSeq(s, LAMBDA f : f # cb)
        IN /\ result.ret = registered
           /\ LiveHooks(heap, wrapper.before) = IF registered THEN Without(b0) ELSE b0
           /\ LiveHooks(heap, wrapper.after) = IF registered THEN Without(a0) ELSE a0
           /\ registered => /\ cb \notin WouldInvoke(heap, wrapper.before)
                             /\ cb \notin WouldInvoke(heap, wrapper.after)
           /\ ~wasWrapped => wrapper = w0

\* a callback registered both before and after was removed from both, and
\* another before hook stayed
C22_Witness ==
    /\ result.op = "Remove" /\ result.ret
    /\ InSeq(result.callback, LiveHooks(heap, result.before.before))
    /\ InSeq(result.callback, LiveHooks(heap, result.before.after))
    /\ LiveHooks(heap, wrapper.before) # <<>>
    /\ ~InSeq(result.callback, LiveHooks(heap, wrapper.before))
    /\ ~InSeq(result.callback, LiveHooks(heap, wrapper.after))

\* the hook or function t, registered through the Callbacks object, is among
\* what the next call of its method or registry would invoke
StillInvoked(t) ==
    \/ /\ t.into = "before" /\ wrapper.installed /\ wrapper.method = t.sender
       /\ t.func \in WouldInvoke(heap, wrapper.before)
    \/ /\ t.into = "after" /\ wrapper.installed /\ wrapper.method = t.sender
       /\ t.func \in WouldInvoke(heap, wrapper.after)
    \/ t.into = "callback" /\ t.func \in WouldInvoke(heap, callbacks)
    \/ t.into = "priority" /\ t.func \in WouldInvoke(heap, pcallbacks)

\* C23: after RemoveAll, and after leaving the scope of a Callbacks object
\* (whether its body raised or not), nothing registered through the object's
\* Before, After or Register is invoked by a later call of the hooked method
\* or of the registries, and the object's bookkeeping is empty.
C23_RemoveAllRemovesEverything ==
    result.op \in {"RemoveAll", "Exit"} =>
        /\ \A t \in result.through : ~StillInvoked(t)
        /\ aggregator = NewCallbacks

\* the parameter the SingleCallCallback was built with has died
ParamGone == single.has_param /\ ~Resolves(heap, single.param)

\* registering after the callback fired, its parameter dead, raises
\* ReferenceError, registers nothing and invokes nothing; and whenever a
\* callable is invoked, the parameter it is given is alive
DeadParameterOtherwise ==
    /\ \A fn \in CallablesOf(heap, ext, Functions), raises \in BOOLEAN :
          (ParamGone /\ single.done /\ SingleRegister(fn, raises)) =>
              /\ result'.status = "raised" /\ result'.exc = ReferenceError
              /\ log' = log /\ callbacks' = callbacks
    /\ (Len(log') > Len(log) /\ single'.has_param) =>
          /\ Resolves(heap', single'.param)
          /\ log'[Len(log')].args[1] = ObjectArg(single'.param)

\* C24 as stated: when the parameter object has died, firing the callback or
\* registering a callable after it fired raises ReferenceError, and no
\* callable is invoked with None in place of the parameter.
C24_DeadParameterRaises ==
    [][/\ \A args \in CallArgs :
              (ParamGone /\ SingleCall(args)) =>
                  /\ result'.status = "raised" /\ result'.exc = ReferenceError
                  /\ log' = log /\ frames' = <<>>
       /\ DeadParameterOtherwise]_vars

\* C24, amended: when the parameter object has died, firing a callback that
\* is not marked as fired, or registering a callable after it fired, raises
\* ReferenceError, and no callable is invoked with None in place of the
\* parameter. (Firing one that is marked as fired raises the AssertionError
\* of C9, whether the parameter is alive or not.)
C24_DeadParameterRaisesUnlessFired ==
    [][/\ \A args \in CallArgs :
              (ParamGone /\ ~single.done /\ SingleCall(args)) =>
                  /\ result'.status = "raised" /\ result'.exc = ReferenceError
                  /\ log' = log /\ frames' = <<>>
                  /\ ~single'.done
       /\ DeadParameterOtherwise]_vars

\* the callback fired once and was allowed to fire again; its parameter then
\* died, and the second firing raised ReferenceError
C24_Witness ==
    /\ result.op = "SingleCall" /\ result.exc = ReferenceError
    /\ ParamGone /\ ~single.done
    /\ single.args = <<20>>
    /\ callbacks # <<>>

\* the handle or proxy the last operation was applied to
Asked == handles[result.on[1]]

\* C25: a WeakMethodRef to a bound method resolves to a bound method equal
\* to the original while the receiver is alive and to None once it has died,
\* also when another instance has taken its address; a WeakMethodProxy to it
\* calls the method while the receiver is alive and raises ReferenceError,
\* calling nothing, once it has died; a handle or proxy to a function always
\* gives the function.
C25_HandleFollowsReceiver ==
    result.op \in {"Resolve", "CallProxy"} =>
        LET alive == Asked.of.kind = "bound" => Resolves(heap, Asked.of.ref)
        IN /\ (result.op = "Resolve" /\ alive) => result.ret = Asked.of
           /\ (result.op = "Resolve" /\ ~alive) => result.ret = NoneC
           /\ (result.op = "CallProxy" /\ alive) =>
                 /\ result.status = "ok"
                 /\ Len(log) = 1 /\ log[1].func = Asked.of
           /\ (result.op = "CallProxy" /\ ~alive) =>
                 /\ result.exc = ReferenceError
                 /\ log = <<>>
           /\ Asked.of.kind = "func" => ~IsDead(heap, Asked)

\* a handle to the method of an instance that died resolved to None while
\* another instance lived at the address of the first
C25_Witness ==
    /\ result.op = "Resolve" /\ result.ret = NoneC
    /\ Asked.of.kind = "bound"
    /\ heap[Asked.of.ref.addr].live
    /\ \E j \in 1..NHandles : handles[j].proxy /\ handles[j].of = Asked.of

\* The object a value given to IsSame refers to: the instance itself, the
\* instance behind a reference or a proxy, nothing for None and for a
\* reference or proxy whose instance has died.
Referent(o) ==
    IF o.kind # "none" /\ Resolves(heap, o.ref) THEN o.ref ELSE NoRef

\* C26: IsSame(a, b) raises whenever a and b are both weak proxies; when
\* at most one of them is a proxy it returns, without raising, whether
\* both refer to the same underlying object, weak references being
\* resolved first.
C26_IsSameRaisesForTwoProxies ==
    result.op = "IsSame" =>
        LET o1 == result.on[1]
            o2 == result.on[2]
        IN IF o1.kind = "proxy" /\ o2.kind = "proxy"
           THEN result.exc = ReferenceError
           ELSE /\ result.status = "ok"
                /\ result.ret = (Referent(o1) = Referent(o2))

\* C27: two method weak-handles of one type compare equal iff the
\* callables they resolve to at that moment compare equal, and two dead
\* handles compare equal only if they were made from equal callables.
C27_HandlesEqualAsTheirCallables ==
    result.op = "Eq" =>
        LET w1 == handles[result.on[1]]
            w2 == handles[result.on[2]]
        IN w1.proxy = w2.proxy =>
            /\ result.ret =
                   (WeakMethodRefCall(heap, w1) = WeakMethodRefCall(heap, w2))
            /\ (IsDead(heap, w1) /\ IsDead(heap, w2) /\ result.ret) =>
                   w1.of = w2.of

\* C28: the hash of a method weak-handle is computed at the first request,
\* from what the handle resolves to then, and every later request returns
\* that value, whether or not the receiver has died in between.
C28_HashFrozen ==
    [][\A i \in 1..NHandles :
          /\ (handles[i] # NoHandle /\ handles[i].hashed /\ handles'[i].hashed) =>
                 handles'[i].hash = handles[i].hash
          /\ (result'.op = "Hash" /\ result'.on = <<i>>) =>
                 /\ handles'[i].hashed
                 /\ result'.ret = handles'[i].hash
                 /\ ~handles[i].hashed =>
                        result'.ret = HashOf(WeakMethodRefCall(heap, handles[i]))]_vars

\* the hash of a handle to a method, taken while the receiver was alive, is
\* asked for again after the receiver has died
C28_Witness ==
    /\ result.op = "Hash"
    /\ Asked.of.kind = "bound"
    /\ IsDead(heap, Asked)
    /\ result.ret = HashOf(Asked.of)

\* The objects behind the references a WeakList holds, in order
ListedObjects == [k \in 1..Len(weak_list) |-> weak_list[k].of]

\* C29: after any appends, adds, removes and deaths, iterating a WeakList
\* or a WeakSet yields exactly the objects put in, not taken out and still
\* alive (a WeakList in the order of the appends), len() counts them, and
\* either leaves the storage with the references to these objects and no
\* dead one; an object added to a WeakSet, however often, has one entry.
C29_ContainersSkipAndPruneDead ==
    /\ result.op \in {"ListIter", "ListLen"} =>
          /\ result.ret = IF result.op = "ListIter"
                          THEN AliveItems(heap, added.list)
                          ELSE Len(AliveItems(heap, added.list))
          /\ ListedObjects = AliveItems(heap, added.list)
    /\ result.op \in {"SetIter", "SetLen"} =>
          LET alive == {x \in added.set : ItemAlive(heap, x)}
          IN /\ result.ret = IF result.op = "SetIter" THEN alive
                             ELSE Cardinality(alive)
             /\ {e.of : e \in weak_set} = alive
             /\ Cardinality(weak_set) = Cardinality(alive)
    /\ result.op = "SetAdd" =>
          Cardinality({e \in weak_set : e.of = result.on[1]}) = 1

\* a WeakList held an object twice and a reference to one that has died:
\* len() counted two and left two references
C29_Witness ==
    /\ result.op = "ListLen" /\ result.ret = 2
    /\ result.on[1] > 2
    /\ Len(weak_list) = 2 /\ weak_list[1] = weak_list[2]

\* the hooks of wrapper k that the call logged last ran
HooksRunOf(k) ==
    {j \in 1..Len(log) : log[j].did \in {"before", "after"} /\ log[j].depth = k}

\* The hooks registered through bound methods, for the call logged last: a
\* hook of the instance called ran once and got the arguments of the call,
\* and no hook of another instance ran.
InstanceHooksRun ==
    \A k \in 1..Len(wrapped.made) :
        wrapped.made[k].self # 0 =>
            IF wrapped.made[k].self = result.inst
            THEN /\ RanItsHooksOnce(k)
                 /\ \A j \in HooksRunOf(k) : log[j].args = result.args
            ELSE HooksRunOf(k) = {}

\* every hook registered through the class ran once in the call logged
\* last and got the instance called and then the arguments of the call
ClassHooksRun ==
    /\ RanItsHooksOnce(wrapped.on_class)
    /\ \A j \in HooksRunOf(wrapped.on_class) :
          log[j].args = <<result.inst>> \o result.args

C31_RaiseEndsTheCall ==
    \A j \in 1..Len(log) :
        log[j].did \in {"raise", "original raise"} =>
            /\ j = Len(log)
            /\ wrapper.pc = "idle" /\ wrapper.to_call = <<>>
            /\ result.op = "WrappedCall" /\ result.status = "raised"
            /\ result.exc = log[j].func

\* F1 and F2 are after the method: the call ran the original and F1, which
\* raised, and F2 was not invoked
C31_Witness ==
    /\ result.op = "WrappedCall" /\ result.status = "raised"
    /\ Len(wrapper.after) = 2
    /\ [j \in 1..Len(log) |-> log[j].did] = <<"original", "raise">>
    /\ log[2].func = FreeFunc("F1")

\* the callback fired, was allowed to fire again and has not fired since;
\* its parameter, if it has one, is alive
AllowedAgain == single.again /\ ~single.done /\ ~ParamDead(heap, single)

\* C32: after AllowCallingAgain() on a SingleCallCallback that fired,
\* Register of a callable invokes nothing; a call raises no error, freezes
\* its own arguments and starts a round with them; a round that ends
\* without an exception has invoked every registered callable once with
\* these arguments; and from then on Register replays these arguments to a
\* callable that has no entry, one that was unregistered included.
C32_FiresAgainAfterAllow ==
    [][/\ \A fn \in CallablesOf(heap, ext, Functions), raises \in BOOLEAN :
              (AllowedAgain /\ SingleRegister(fn, raises)) =>
                  /\ log' = log
                  /\ result'.status = "ok"
                  /\ EntriesFor(callbacks', fn) = 1
       /\ \A args \in CallArgs :
              (AllowedAgain /\ SingleCall(args)) =>
                  /\ result'.status # "raised"
                  /\ single'.done /\ single'.args = args
                  /\ log' = <<>>
                  /\ callbacks # <<>> =>
                        /\ Len(frames') = 1
                        /\ frames'[1].args = WithParam(single, args)
                        /\ Len(frames'[1].to_call) = Len(callbacks')
       /\ (single.again /\ frames # <<>> /\ frames' = <<>> /\ result'.status = "ok") =>
              /\ Len(log') = Len(callbacks')
              /\ \A j \in 1..Len(log') :
                    /\ log'[j].func = RegisteredCallable(callbacks'[j])
                    /\ log'[j].args = FrozenArgs
                    /\ log'[j].did = "return"
       /\ \A fn \in CallablesOf(heap, ext, Functions), raises \in BOOLEAN :
              single.again => ReplayedIfNew(fn, raises)]_vars

\* the callback fired, was allowed to fire again and fired with 20: the
\* function and the bound method registered got 20, and the function,
\* unregistered and registered again, got 20 once more
C32_Witness ==
    /\ single.again /\ single.done /\ single.args = <<20>>
    /\ ~single.has_param
    /\ Len(log) = 3
    /\ \A j \in 1..3 : log[j].args = <<20>>
    /\ log[1].depth = 1 /\ log[2].depth = 1 /\ log[3].depth = 0
    /\ log[3].func = FreeFunc("F1")
    /\ FreeFunc("F1") \in {log[1].func, log[2].func}

\* no entry of the hook registry cbs has a callback whose receiver is dead
NoDeadHook(cbs) == \A i \in 1..Len(cbs) : ~EntryDead(heap, cbs[i])

\* C33: when the receiver of a hook's callback has died, the hook being
\* registered as it is or inside a _CallbackWrapper, a later call of the
\* wrapped method drops the hook's entry from its registry when it comes
\* to that registry, never invokes the hook, raises nothing on its account
\* (it raises only what a live hook or the method raises, or
\* ReferenceError for the method's own receiver), and a call that returns
\* has invoked every other hook and the original method.
C33_DeadHookDroppedNotInvoked ==
    /\ wrapper.pc = "before" => NoDeadHook(wrapper.before)
    /\ wrapper.pc = "after" => NoDeadHook(wrapper.before) /\ NoDeadHook(wrapper.after)
    /\ \A j \in 1..Len(log) :
          /\ log[j].func.ref # NoRef => Resolves(heap, log[j].func.ref)
          /\ \A i \in 1..Len(wrapper.deleted) : HookOf(wrapper.deleted[i]) # log[j].func
    /\ (result.op = "WrappedCall" /\ result.status = "raised") =>
          \/ /\ log # <<>>
             /\ log[Len(log)].did \in {"raise", "original raise"}
             /\ result.exc = log[Len(log)].func
          \/ /\ result.exc = ReferenceError
             /\ ReceiverDead
             /\ \A j \in 1..Len(log) : log[j].did = "return"
    /\ (result.op = "WrappedCall" /\ result.status = "ok") =>
          /\ NoDeadHook(wrapper.before) /\ NoDeadHook(wrapper.after)
          /\ [j \in 1..Len(log) |-> log[j].func]
                = LiveHooks(heap, wrapper.before) \o <<wrapper.method>>
                  \o LiveHooks(heap, wrapper.after)

\* a call that returned dropped two entries, one of them a hook that wanted
\* the sender, and invoked the original method and a hook that is alive
C33_Witness ==
    /\ result.op = "WrappedCall" /\ result.status = "ok"
    /\ Len(wrapper.deleted) = 2
    /\ \E i \in 1..2 : RegisteredCallable(wrapper.deleted[i]).kind = "cbwrapper"
    /\ \E i \in 1..2 : RegisteredCallable(wrapper.deleted[i]).kind = "bound"
    /\ Len(log) = 2

\* ------------------------------------------------------------------ C34
\* C34: a call of a LastResultCachedMethod is a hit (the wrapped method does
\* not run, the stored result is returned) exactly when its key equals the
\* key of the call before since construction or Clear; every other call,
\* the first one with or without arguments included, is a miss that runs
\* the wrapped method once and stores its result; and call_count equals
\* hit_count + miss_count in every state.
C34_HitIffKeyOfCallBefore ==
    cached.kind = "last" =>
        /\ cached.call_count = cached.hit_count + cached.miss_count
        /\ result.op = "CachedCall" =>
              /\ result.hit <=> result.before.prev = <<result.key>>
              /\ result.hit =>
                    /\ result.status = "ok"
                    /\ cached.n_calls = result.before.n_calls
                    /\ result.ret = result.before.result
              /\ ~result.hit =>
                    /\ cached.n_calls = result.before.n_calls + 1
                    /\ result.status = "ok" =>
                          /\ cached.key = result.key
                          /\ cached.result = result.ret

\* ------------------------------------------------------------------ C35
\* the result stored under the key in the results, <<>> when there is none
StoredUnder(results, key) ==
    SelectSeq(results, LAMBDA e : e.key = key)

\* The store after a miss that returned: the result goes last (or takes the
\* place of the one stored under the same key), and when that makes more
\* results than the cache size the oldest one is gone.
AfterMiss(b, key, ret) ==
    LET new == [key |-> key, result |-> ret]
        set == IF StoredUnder(b.results, key) = <<>>
               THEN b.results \o <<new>>
               ELSE [i \in 1..Len(b.results) |->
                       IF b.results[i].key = key THEN new ELSE b.results[i]]
    IN IF Len(set) <= b.cache_size THEN set
       ELSE SubSeq(set, 2, Len(set))

\* the store never holds more results than cache_size, and a miss stores
\* its result and evicts the oldest one when there is one too many
BoundedOldestEvicted ==
    /\ Len(cached.results) <= cached.cache_size
    /\ result.op = "CachedCall" =>
          /\ result.hit => cached.results = result.before.results
          /\ ~result.hit =>
                /\ cached.n_calls = result.before.n_calls + 1
                /\ cached.results =
                      IF result.status = "ok"
                      THEN AfterMiss(result.before, result.key, result.ret)
                      ELSE result.before.results

\* the call was a hit: the method did not run and the stored result came back
WasHit ==
    /\ result.hit
    /\ result.status = "ok"
    /\ cached.n_calls = result.before.n_calls
    /\ <<[key |-> result.key, result |-> result.ret]>>
          = StoredUnder(result.before.results, result.key)

\* C35 as stated: an AttributeBasedCachedMethod with cache_size n holds at
\* most n results after any sequence of calls, a miss that would exceed n
\* evicts the oldest inserted result, and a call whose arguments and watched
\* attribute match a stored result is a hit that does not run the method.
C35_BoundedAndHitWhenStored ==
    cached.kind = "attr" =>
        /\ BoundedOldestEvicted
        /\ (/\ result.op = "CachedCall"
            /\ StoredUnder(result.before.results, result.key) # <<>>) => WasHit

\* C35, amended: the same, the hit being promised while the cached method
\* is enabled; with enabled = False every call runs the method.
C35_BoundedAndHitWhenStoredAndEnabled ==
    cached.kind = "attr" =>
        /\ BoundedOldestEvicted
        /\ (/\ result.op = "CachedCall"
            /\ StoredUnder(result.before.results, result.key) # <<>>)
              => IF result.before.enabled THEN WasHit ELSE ~result.hit

\* a store of size 2 was full, a miss evicted its oldest result, and the
\* next call hit the result that moved to the front
C35_Witness ==
    /\ cached.kind = "attr"
    /\ cached.cache_size = 2
    /\ cached.n_calls = 3
    /\ Len(cached.results) = 2
    /\ \A i \in 1..2 : cached.results[i].result # <<1>>
    /\ result.op = "CachedCall"
    /\ WasHit
    /\ result.key = cached.results[1].key

\* ------------------------------------------------------------------ C36
\* the priorities of a registry's entries in iteration order
PriorityOrder(cbs) == [i \in 1..Len(cbs) |-> PriorityOf(cbs[i])]

NonDecreasing(s) == \A i, j \in 1..Len(s) : i < j => s[i] <= s[j]

\* C36: in every reachable state of a PriorityCallback (after Register with
\* any priorities, re-registrations, Unregister, UnregisterAll and pruning
\* by Call or Contains) the entries in iteration order have non-decreasing
\* priority; so have the entries of the snapshot of a running Call.
C36_EntriesByPriority ==
    /\ NonDecreasing(PriorityOrder(callbacks))
    /\ \A d \in 1..Len(Rounds) : NonDecreasing(PriorityOrder(Rounds[d].start))

\* Contains pruned a dead entry from a registry that held three, and what
\* is left, in order, is a later registration of priority 1 in front of an
\* earlier one of priority 3
C36_Witness ==
    /\ result.op = "Contains"
    /\ Len(result.before) = 3
    /\ Len(callbacks) = 2
    /\ PriorityOrder(callbacks) = <<1, 3>>
    /\ SerialOf(callbacks[1]) > SerialOf(callbacks[2])

\* ------------------------------------------------------------------ C37
\* C37: registering an already registered callable again in a
\* PriorityCallback with priority p removes its old entry and puts the new
\* one right before the first entry of priority greater than p: behind all
\* other entries of priority p or less, whatever its priority was; the
\* others keep their order and the registry holds one entry for it.
C37_ReRegisterFollowsNewPriority ==
    [][\A func \in CallablesOf(heap, ext, {"F1", "OnCall1", "OnCall2", "OnCall3"}),
         priority \in Priorities :
          (PriorityRegister(func, priority) /\ EntriesFor(callbacks, func) > 0) =>
             LET key == GetKey(heap, func)
                 kept == SelectSeq(callbacks, LAMBDA e : e.key # key)
                 front == SelectSeq(kept, LAMBDA e : PriorityOf(e) <= priority)
                 back == SelectSeq(kept, LAMBDA e : PriorityOf(e) > priority)
                 n == Len(front)
             IN /\ Len(kept) = Len(callbacks) - 1
                /\ Len(callbacks') = Len(callbacks)
                /\ EntriesFor(callbacks', func) = 1
                /\ SubSeq(callbacks', 1, n) = front
                /\ SubSeq(callbacks', n + 2, Len(callbacks')) = back
                /\ RegisteredCallable(callbacks'[n + 1]) = func
                /\ PriorityOf(callbacks'[n + 1]) = priority
                /\ callbacks'[n + 1].extra = <<NextSerial(callbacks)>>]_vars

\* Nothing is ever unregistered here, so the fourth and the fifth
\* registration were of functions already registered: one stands, with
\* priority 2, behind the entry of priority 2 registered before it, the
\* other went to the front with priority 1.
C37_Witness ==
    /\ Idle
    /\ Len(callbacks) = 3
    /\ PriorityOrder(callbacks) = <<1, 2, 2>>
    /\ [i \in 1..3 |-> SerialOf(callbacks[i])] = <<5, 2, 4>>

\* ------------------------------------------------------------------ C38
\* C38: odict.insert(index, key, value) with a key not yet in the dict and
\* 0 <= index <= len puts the key at position index with the given value
\* and keeps the order and the values of all other keys, whichever of its
\* two ways of moving the keys it takes.
C38_InsertAtIndex ==
    (/\ result.op = "Insert"
     /\ ~OdHas(result.before, result.key)
     /\ result.index <= Len(result.before)) =>
        callbacks = SubSeq(result.before, 1, result.index)
                    \o <<[key |-> result.key, info |-> <<>>,
                          extra |-> result.value]>>
                    \o SubSeq(result.before, result.index + 1,
                              Len(result.before))

\* a key went in between the first and the second of three keys by moving
\* the head to the front, after an insert that moved the tail to the end
C38_Witness ==
    /\ result.op = "Insert"
    /\ ~OdHas(result.before, result.key)
    /\ Len(result.before) = 3
    /\ result.index = 1
    /\ result.path = "head"
    /\ result.paths = {"head", "tail"}
    /\ callbacks[2].key = result.key

\* ------------------------------------------------------------------ C39
\* the receivers of the callables in the list of an activation are alive
ReceiversAlive(f) ==
    \A i \in 1..Len(f.to_call) :
        f.to_call[i].func.ref # NoRef => Resolves(heap, f.to_call[i].func.ref)

\* C39: a receiver that is alive when a Call builds its snapshot is invoked
\* in that round even if every other reference to it is dropped while
\* earlier callables of the round run: the snapshot holds the resolved
\* callables strongly until the round ends, so every callable of a running
\* round has a live receiver when its turn comes, and a round that returns
\* has invoked every callable of its snapshot.
C39_SnapshotKeepsReceiversAlive ==
    /\ \A d \in 1..Len(frames) :
          /\ ReceiversAlive(frames[d])
          /\ [i \in 1..Len(frames[d].to_call) |-> frames[d].to_call[i].func]
                = [i \in 1..Len(frames[d].start) |->
                     RegisteredCallable(frames[d].start[i])]
    /\ (Invoking /\ Invoked.ref # NoRef) => Resolves(heap, Invoked.ref)
    /\ \A d \in 1..Len(Rounds) :
          LET own == OwnEvents(Rounds, d)
          IN /\ Len(own) = Rounds[d].idx - 1
             /\ \A k \in 1..Len(own) :
                   own[k].func = RegisteredCallable(Rounds[d].start[k])
    /\ RoundOver => \A d \in 1..Len(Rounds) : Rounds[d].idx = Len(Rounds[d].start) + 1

\* F1 ran first and dropped the last reference to the instance whose method
\* came second; the method was invoked all the same, and the instance died
\* when the round was over
C39_Witness ==
    /\ RoundOver
    /\ Len(log) = 2
    /\ log[1].func = FreeFunc("F1")
    /\ log[1].did = "drop"
    /\ log[2].did = "return"
    /\ log[2].func.kind = "bound"
    /\ ~Resolves(heap, log[2].func.ref)
    /\ ext = {}

\* ------------------------------------------------------------------ C40
\* a callable of the running round raises in this step
RaisesNow ==
    /\ Invoking
    /\ Len(log') = Len(log) + 1
    /\ log'[Len(log')].did = "raise"

\* C40: a SingleCallCallback is marked fired before it dispatches. When a
\* registered callable raises during the firing the exception propagates,
\* the callback stays fired (a further call raises the re-fire error) and
\* the callables later in the round are not delivered the arguments, neither
\* then nor by registering them again while they are still registered. A
\* firing that fails because the parameter is dead leaves the callback
\* un-fired.
C40_FiredBeforeDispatch ==
    [][/\ frames' # <<>> => single'.done
       /\ RaisesNow =>
             /\ single.done /\ single'.done
             /\ frames' = <<>>
             /\ result'.op = "Call" /\ result'.status = "raised"
             /\ result'.exc = Invoked
             /\ SubSeq(log', 1, Len(log)) = log
             /\ log'[Len(log')].func = Invoked
             /\ callbacks' = callbacks
       /\ \A args \in CallArgs :
             /\ (single.done /\ SingleCall(args)) =>
                   /\ result'.status = "raised"
                   /\ result'.exc = AssertionError
                   /\ log' = log
                   /\ frames' = <<>>
                   /\ single'.done
             /\ (~single.done /\ ParamDead(heap, single) /\ SingleCall(args)) =>
                   /\ result'.status = "raised"
                   /\ result'.exc = ReferenceError
                   /\ log' = log
                   /\ frames' = <<>>
                   /\ ~single'.done
       /\ \A fn \in CallablesOf(heap, ext, {"F1"}), raises \in BOOLEAN :
             (/\ single.done
              /\ EntriesFor(callbacks, fn) > 0
              /\ SingleRegister(fn, raises)) =>
                   /\ log' = log
                   /\ result'.status = "ok" \/ ParamDead(heap, single)
                   /\ single'.done]_vars

\* The first callable of the firing raised; the second, which the round
\* never reached, was registered again afterwards and got nothing: the log
\* holds the raise alone and the callback is fired.
C40_Witness ==
    /\ single.done
    /\ result.op = "SingleRegister" /\ result.status = "ok"
    /\ Len(callbacks) = 2
    /\ Len(log) = 1
    /\ log[1].did = "raise"
    /\ log[1].depth = 1
    /\ log[1].func = RegisteredCallable(callbacks[1])
    /\ log[1].args = FrozenArgs

====
